---------------------------- MODULE Spec2Model ----------------------------
(***************************************************************************)
(* A model of the Opinion IQ server (atom157/opinion.iq).                  *)
(*                                                                         *)
(* The repository holds several builds of the same server.  The builds     *)
(* modelled here are                                                       *)
(*   "paged" : src/unnamed/part_001 lines 1-539   (paginated listing scan, *)
(*             optional detail merge, token paths read from the OpenAPI    *)
(*             document),                                                  *)
(*   "root"  : src/unnamed/part_001 lines 541-1003 (one listing fetch with *)
(*             path fallback, detail fetch inside findMarketByTopicId),    *)
(*   "child" : src/unnamed/part_003 (GET /api/debug, findChildMarket),     *)
(* and the older upstream clients of src/server/server.js and              *)
(* src/unnamed/part_004 as pure functions.                                 *)
(*                                                                         *)
(* Text is modelled as a sequence of tokens: one token per character,      *)
(* except that the fixed pieces the parser looks for (the URL prefix up to *)
(* the path, and the text "topicId=") are single tokens.  JSON values are  *)
(* records tagged by their type.                                           *)
(***************************************************************************)
EXTENDS Integers, Sequences, FiniteSets, TLC

VARIABLES
    pIn,        \* parser check: the identifier handed to parseTopicId
    pOut,       \* parser check: who parsed it, and the result
    gIn,        \* client check: the upstream's HTTP response
    gOut,       \* client check: which client read it, and its outcome
    mIn,        \* metrics check: the inputs of the calculator or the scorer
    mOut,       \* metrics check: who computed, and the result
    variant,    \* which build handles the request: "paged", "root", "child"
    hasKey,     \* OPINION_API_KEY is set
    url,        \* the request's identifier (body.url, or query marketId)
    total,      \* upstream: the total every listing page reports
    hitPages,   \* upstream: the listing pages that hold the target
    pc,         \* the handler's position: the await it is suspended at
    topicId,    \* the parsed target id
    page,       \* findMarketByTopicId / findChildMarket: the page awaited
    maxPages,   \* findMarketByTopicId: Math.min(pages, 80)
    found,      \* what the listing scan returned
    market,     \* the matched record (after the detail merge, if any)
    tok,        \* { yesTokenId, noTokenId }
    cand,       \* index of the candidate path being tried
    lastErr,    \* lastErr of the candidate loops
    inflight,   \* upstream requests issued and not yet answered
    log,        \* upstream requests and their answers, in order
    sent,       \* the HTTP responses the handler has sent
    specCache,      \* _specCache
    specFetchedAt,  \* _specFetchedAt, in minutes
    now,            \* Date.now(), in minutes
    paths,      \* the token endpoints resolveTokenPaths found
    arrived,    \* token requests answered successfully
    tokens      \* the sides whose metrics and verdict have been computed

parseVars == <<pIn, pOut>>
getVars   == <<gIn, gOut>>
metricVars == <<mIn, mOut>>
worldVars == <<variant, hasKey, url, total, hitPages, now>>
handlerVars == <<pc, topicId, page, maxPages, found, market, tok, cand, lastErr, inflight,
                 log, sent, specCache, specFetchedAt, paths, arrived, tokens>>

vars == <<pIn, pOut, gIn, gOut, mIn, mOut, variant, hasKey, url, total, hitPages, now,
          pc, topicId, page, maxPages, found, market, tok, cand, lastErr, inflight,
          log, sent, specCache, specFetchedAt, paths, arrived, tokens>>

(***************************************************************************)
(* Bounds of the model.                                                    *)
(***************************************************************************)
MaxInputLen == 5
\* Listing pages past the last page a scan may reach that can hold the target.
ExtraPages == 1

(***************************************************************************)
(* Constants of the program.                                               *)
(***************************************************************************)
PageLimit       == 20    \* const limit = 20
DefaultPages    == 50    \* pages when page 1 reports no total
SafetyCeiling   == 80    \* Math.min(pages, 80)
ChildMaxPages   == 10    \* MAX_PAGES of findChildMarket
SpecTtl         == 5     \* 5 * 60 * 1000 ms, in minutes

(***************************************************************************)
(* Text.                                                                   *)
(***************************************************************************)
SchemeTok == "https://app.opinion.trade/detail"
KeyTok    == "topicId="
QTok      == "?"
AmpTok    == "&"
LetterTok == "a"

DigitChars == {"0", "1", "2", "3", "4", "5", "6", "7", "8", "9"}

IsDigit(c) == c \in DigitChars

\* /^\d+$/.test(s)
AllDigits(s) == Len(s) > 0 /\ \A i \in 1..Len(s) : IsDigit(s[i])

\* The larger of two numbers.
Max2(a, b) == IF a >= b THEN a ELSE b

Min(S) == CHOOSE x \in S : \A y \in S : x <= y

\* The tokens an identifier is built from after its optional URL prefix.
TailToks == {QTok, AmpTok, KeyTok, LetterTok, "6", "1"}

RECURSIVE SeqsUpTo(_, _)
SeqsUpTo(S, n) ==
    IF n = 0 THEN {<<>>}
    ELSE LET shorter == SeqsUpTo(S, n - 1)
         IN  shorter \cup {Append(s, c) : s \in {t \in shorter : Len(t) = n - 1}, c \in S}

Inputs ==
    LET tails == SeqsUpTo(TailToks, MaxInputLen)
    IN  tails \cup {<<SchemeTok>> \o t : t \in tails}

(***************************************************************************)
(* parseTopicId.  A result is [ok, id]: ok = FALSE is the null result.     *)
(***************************************************************************)
NoId == [ok |-> FALSE, id |-> <<>>]
SomeId(s) == [ok |-> TRUE, id |-> s]

\* new URL(input) succeeds exactly for an absolute URL: the text starts with
\* the scheme-and-host prefix.
urlParses(input) == Len(input) > 0 /\ input[1] = SchemeTok

\* The query of a parsed URL: what follows the first "?".
queryOf(input) ==
    LET qs == {i \in 1..Len(input) : input[i] = QTok}
    IN  IF qs = {} THEN <<>> ELSE SubSeq(input, Min(qs) + 1, Len(input))

\* url.searchParams.get("topicId"): the value of the first "&"-separated
\* parameter named topicId, null when there is none.
searchParamsGet(input) ==
    LET q      == queryOf(input)
        starts == {i \in 1..Len(q) : q[i] = KeyTok /\ (i = 1 \/ q[i - 1] = AmpTok)}
    IN  IF starts = {} THEN NoId
        ELSE LET i    == Min(starts)
                 amps == {j \in (i + 1)..Len(q) : q[j] = AmpTok}
                 stop == IF amps = {} THEN Len(q) + 1 ELSE Min(amps)
             IN  SomeId(SubSeq(q, i + 1, stop - 1))

\* String(input).match(/topicId=(\d+)/): the leftmost "topicId=" followed by
\* a digit; the capture is the longest run of digits after it.
matchTopicId(s) ==
    LET hits == {i \in 1..(Len(s) - 1) : s[i] = KeyTok /\ IsDigit(s[i + 1])}
    IN  IF hits = {} THEN NoId
        ELSE LET i    == Min(hits)
                 ends == {j \in (i + 1)..Len(s) :
                              /\ \A k \in (i + 1)..j : IsDigit(s[k])
                              /\ (j = Len(s) \/ ~IsDigit(s[j + 1]))}
             IN  SomeId(SubSeq(s, i + 1, Min(ends)))

\* A build whose URL branch forgets the digit test.
parseTopicIdNoDigitTest(input) ==
    IF Len(input) = 0 THEN NoId
    ELSE IF urlParses(input) THEN searchParamsGet(input)
    ELSE matchTopicId(input)

\* src/unnamed/part_001:20-30 (the same text at part_001:563-573 and
\* part_004:35-45).
parseTopicId(input) ==
    IF Len(input) = 0 THEN NoId
    ELSE IF urlParses(input)
         THEN LET got == searchParamsGet(input)
              IN  IF got.ok /\ Len(got.id) > 0 /\ AllDigits(got.id) THEN got ELSE NoId
         ELSE matchTopicId(input)

\* src/server/server.js:344-353 (the same text at part_004:23-33): the URL
\* branch returns the parameter as it is.
parseTopicIdLegacy(input) ==
    IF Len(input) = 0 THEN NoId
    ELSE IF urlParses(input) THEN searchParamsGet(input)
    ELSE matchTopicId(input)

\* What the handlers do with the result: if (!topicId) return 400.
rejected(r) == ~r.ok \/ Len(r.id) = 0

(***************************************************************************)
(* JSON values.  A string value holds its text as a sequence of            *)
(* characters; an object holds a function from its keys to their values.   *)
(***************************************************************************)
JUndef    == [t |-> "undef"]
JNull     == [t |-> "null"]
JNum(n)   == [t |-> "num", n |-> n]
JStr(s)   == [t |-> "str", s |-> s]
JArr(a)   == [t |-> "arr", items |-> a]
JObj(f)   == [t |-> "obj", f |-> f]

\* x && typeof x === "object" && !Array.isArray(x)
isObj(x) == x.t = "obj"

\* "k" in payload
HasKey(x, k) == isObj(x) /\ k \in DOMAIN x.f

\* x.k and x?.k: undefined when x is no object or has no such key.
Get(x, k) == IF HasKey(x, k) THEN x.f[k] ELSE JUndef

\* a ?? b
Nullish(v) == v.t \in {"undef", "null"}
Coalesce(a, b) == IF Nullish(a) THEN b ELSE a

\* JavaScript truthiness.
Truthy(v) ==
    CASE v.t = "num" -> v.n # 0
      [] v.t = "str" -> Len(v.s) > 0
      [] v.t \in {"arr", "obj"} -> TRUE
      [] OTHER -> FALSE

\* a || b
OrElse(a, b) == IF Truthy(a) THEN a ELSE b

DigitVal(c) ==
    CASE c = "0" -> 0 [] c = "1" -> 1 [] c = "2" -> 2 [] c = "3" -> 3
      [] c = "4" -> 4 [] c = "5" -> 5 [] c = "6" -> 6 [] c = "7" -> 7
      [] c = "8" -> 8 [] c = "9" -> 9

DigitChar(d) ==
    CASE d = 0 -> "0" [] d = 1 -> "1" [] d = 2 -> "2" [] d = 3 -> "3"
      [] d = 4 -> "4" [] d = 5 -> "5" [] d = 6 -> "6" [] d = 7 -> "7"
      [] d = 8 -> "8" [] d = 9 -> "9"

RECURSIVE StrToNat(_)
StrToNat(s) ==
    IF Len(s) = 0 THEN 0
    ELSE 10 * StrToNat(SubSeq(s, 1, Len(s) - 1)) + DigitVal(s[Len(s)])

RECURSIVE NatToStr(_)
NatToStr(n) ==
    IF n < 10 THEN <<DigitChar(n)>>
    ELSE Append(NatToStr(n \div 10), DigitChar(n % 10))

\* Number(v): [nan, n].
NaN == [nan |-> TRUE, n |-> 0]
Num(n) == [nan |-> FALSE, n |-> n]
ToNumber(v) ==
    CASE v.t = "num" -> Num(v.n)
      [] v.t = "str" -> IF Len(v.s) = 0 THEN Num(0)
                        ELSE IF AllDigits(v.s) THEN Num(StrToNat(v.s)) ELSE NaN
      [] v.t = "null" -> Num(0)
      [] v.t = "arr" -> IF Len(v.items) = 0 THEN Num(0) ELSE NaN
      [] OTHER -> NaN

\* String(v), for the values compared as text.
JsString(v) ==
    CASE v.t = "num" -> IF v.n >= 0 THEN NatToStr(v.n) ELSE <<"-">> \o NatToStr(-v.n)
      [] v.t = "str" -> v.s
      [] v.t = "null" -> <<"n", "u", "l", "l">>
      [] v.t = "undef" -> <<"u", "n", "d", "e", "f", "i", "n", "e", "d">>
      [] v.t = "arr" -> <<"[", "]">>
      [] OTHER -> <<"[", "o", "b", "j", "e", "c", "t", "]">>

(***************************************************************************)
(* The upstream's HTTP responses and the clients' outcomes.                *)
(*   response: [ok, status, body]; a body is JSON text (with the value it  *)
(*   decodes to), text that is no JSON, or no text at all.                 *)
(*   outcome : a returned value, or a thrown Error with its message.  A    *)
(*   message is [m, status, body, text]: the fixed wording m, and the      *)
(*   parts of the response the wording quotes.                             *)
(***************************************************************************)
JsonBody(p) == [kind |-> "json", payload |-> p]
GarbageBody == [kind |-> "garbage", payload |-> JUndef]
EmptyBody   == [kind |-> "empty", payload |-> JUndef]

Http(ok, status, body) == [ok |-> ok, status |-> status, body |-> body]

NoMsg == [m |-> "", status |-> 0, body |-> EmptyBody, text |-> <<>>]
Msg(m) == [NoMsg EXCEPT !.m = m]
Returns(v) == [ok |-> TRUE, val |-> v, err |-> NoMsg]
Throws(e)  == [ok |-> FALSE, val |-> JUndef, err |-> e]

\* No client has read the response yet.
NotRead == [who |-> "none", out |-> Returns(JUndef)]

\* `Request failed (${resp.status}): ${text}`
RequestFailed(resp) == [NoMsg EXCEPT !.m = "Request failed", !.status = resp.status,
                                     !.body = resp.body]
\* `Non-JSON response: ${text.slice(0, 300)}`
NonJson(resp) == [NoMsg EXCEPT !.m = "Non-JSON response", !.body = resp.body]
\* new Error(payload.msg || "OpenAPI error")
UpstreamMsg(v) ==
    IF Truthy(v) THEN [NoMsg EXCEPT !.m = "upstream", !.text = JsString(v)]
    ELSE Msg("OpenAPI error")

\* A client that parses an empty body like any other text.
openApiGetParsesEmpty(resp) ==
    IF ~resp.ok THEN Throws(RequestFailed(resp))
    ELSE IF resp.body.kind # "json" THEN Throws(NonJson(resp))
    ELSE LET payload == resp.body.payload
         IN  IF HasKey(payload, "result") /\ HasKey(payload, "code")
             THEN IF ToNumber(payload.f["code"]) # Num(0)
                  THEN Throws(UpstreamMsg(Get(payload, "msg")))
                  ELSE Returns(payload.f["result"])
             ELSE IF HasKey(payload, "result") /\ HasKey(payload, "errno")
             THEN IF ToNumber(payload.f["errno"]) # Num(0)
                  THEN Throws(UpstreamMsg(Get(payload, "errmsg")))
                  ELSE Returns(payload.f["result"])
             ELSE Returns(payload)

\* src/unnamed/part_001:56-96, called with allowNoEnvelope = true (no caller
\* passes it); the same decisions at part_001:595-631.
\* payload = text ? JSON.parse(text) : null.
openApiGet(resp) ==
    IF ~resp.ok THEN Throws(RequestFailed(resp))
    ELSE IF resp.body.kind = "garbage" THEN Throws(NonJson(resp))
    ELSE LET payload == IF resp.body.kind = "empty" THEN JNull ELSE resp.body.payload
         IN  IF HasKey(payload, "result") /\ HasKey(payload, "code")
             THEN IF ToNumber(payload.f["code"]) # Num(0)
                  THEN Throws(UpstreamMsg(Get(payload, "msg")))
                  ELSE Returns(payload.f["result"])
             ELSE IF HasKey(payload, "result") /\ HasKey(payload, "errno")
             THEN IF ToNumber(payload.f["errno"]) # Num(0)
                  THEN Throws(UpstreamMsg(Get(payload, "errmsg")))
                  ELSE Returns(payload.f["result"])
             ELSE Returns(payload)

\* src/server/server.js:64-93: only the {code, msg, result} envelope, found
\* by the key "code" alone and compared with !== 0.
openApiGetCodeOnly(resp) ==
    IF ~resp.ok THEN Throws(RequestFailed(resp))
    ELSE IF resp.body.kind = "garbage" THEN Throws(NonJson(resp))
    ELSE LET payload == IF resp.body.kind = "empty" THEN JNull ELSE resp.body.payload
         IN  IF payload.t \in {"obj", "arr"} /\ HasKey(payload, "code")
             THEN IF payload.f["code"] # JNum(0)
                  THEN Throws(UpstreamMsg(Get(payload, "msg")))
                  ELSE Returns(Get(payload, "result"))
             ELSE Returns(payload)

\* src/server/server.js:648-660: response.json(), then payload?.code !== 0
\* throws whatever the payload is.
fetchJson(resp) ==
    IF ~resp.ok THEN Throws(RequestFailed(resp))
    ELSE IF resp.body.kind # "json" THEN Throws(Msg("SyntaxError"))
    ELSE LET payload == resp.body.payload
         IN  IF Get(payload, "code") # JNum(0)
             THEN Throws(UpstreamMsg(Get(payload, "msg")))
             ELSE Returns(Get(payload, "result"))

\* src/unnamed/part_004:48-61: JSON.parse(text) of whatever text came.
fetchJsonStrict(resp) ==
    IF ~resp.ok THEN Throws(RequestFailed(resp))
    ELSE IF resp.body.kind # "json"
         THEN Throws([NoMsg EXCEPT !.m = "Bad JSON", !.body = resp.body])
    ELSE Returns(resp.body.payload)

(***************************************************************************)
(* The market helpers of the builds.                                       *)
(***************************************************************************)
\* Math.ceil(n / d)
CeilDiv(n, d) == -((-n) \div d)

\* src/unnamed/part_001:194-196
pickTopicId(m) ==
    Coalesce(Coalesce(Coalesce(Get(m, "topicId"), Get(m, "topic_id")),
                      Get(m, "topicID")), JNull)

\* src/unnamed/part_001:198-204
pickTokenIds(m) ==
    [yesTokenId |->
        Coalesce(Coalesce(Coalesce(Coalesce(Get(m, "yesTokenId"), Get(m, "yes_token_id")),
                                   Get(Get(m, "rules"), "yesTokenId")),
                          Get(Get(m, "rules"), "yesTokenID")), JNull),
     noTokenId |->
        Coalesce(Coalesce(Coalesce(Coalesce(Get(m, "noTokenId"), Get(m, "no_token_id")),
                                   Get(Get(m, "rules"), "noTokenId")),
                          Get(Get(m, "rules"), "noTokenID")), JNull)]

\* src/unnamed/part_001:206-208
pickMarketId(m) ==
    Coalesce(Coalesce(Coalesce(Get(m, "marketId"), Get(m, "market_id")),
                      Get(m, "id")), JNull)

\* src/unnamed/part_001:696-708, the build "root"
pickMarketIdRoot(m) ==
    Coalesce(Coalesce(Coalesce(Coalesce(Get(m, "id"), Get(m, "marketId")),
                               Get(m, "market_id")), Get(m, "mid")), JNull)

pickTopicIdRoot(m) == Coalesce(Coalesce(Get(m, "topicId"), Get(m, "topic_id")), JNull)

pickTokenIdsRoot(m) ==
    [yesTokenId |-> Coalesce(Coalesce(Get(m, "yesTokenId"), Get(m, "yes_token_id")), JNull),
     noTokenId  |-> Coalesce(Coalesce(Get(m, "noTokenId"), Get(m, "no_token_id")), JNull)]

\* A test that never takes the ids as resolved.
UnresolvedAlways(t) == TRUE

\* !yesTokenId || !noTokenId
Unresolved(t) == ~Truthy(t.yesTokenId) \/ ~Truthy(t.noTokenId)

\* A search that finds nothing.
findInNothing(list, id) == JNull

\* const findIn = (list) => list.find(...) || null
findIn(list, id) ==
    LET hits == {i \in 1..Len(list) : JsString(pickTopicId(list[i])) = id}
    IN  IF hits = {} THEN JNull ELSE OrElse(list[Min(hits)], JNull)

\* src/unnamed/part_001:855: marketsList.find(...) of the build "root"
findListItem(list, id) ==
    LET hits == {i \in 1..Len(list) : JsString(pickTopicIdRoot(list[i])) = id}
    IN  IF hits = {} THEN JUndef ELSE list[Min(hits)]

\* { ...a, ...b } for two objects
Spread(a, b) ==
    JObj([k \in DOMAIN a.f \cup DOMAIN b.f |->
            IF k \in DOMAIN b.f THEN b.f[k] ELSE a.f[k]])

\* src/unnamed/part_001:210-218
getMarketListPage(resp) ==
    LET r == openApiGet(resp)
    IN  IF ~r.ok THEN r
        ELSE IF ~isObj(r.val) \/ Get(r.val, "list").t # "arr"
             THEN Throws(Msg("Unexpected market list shape"))
        ELSE r

\* src/unnamed/part_001:225-226
\*   total = Number(first.total || 0); pages = total ? ceil(total/limit) : 50
pagesOf(first) ==
    LET t == ToNumber(OrElse(Get(first, "total"), JNum(0)))
    IN  IF t.nan \/ t.n = 0 THEN DefaultPages ELSE CeilDiv(t.n, PageLimit)

\* A ceiling one page too low.
maxPagesOfShort(first) == Min({pagesOf(first), SafetyCeiling}) - 1

\* No ceiling at all.
maxPagesOfUncapped(first) == pagesOf(first)

\* src/unnamed/part_001:234
maxPagesOf(first) == Min({pagesOf(first), SafetyCeiling})

\* src/unnamed/part_001:676-694
Defined(v) == v.t # "undef"

looksLikeMarketListItem(obj) ==
    /\ isObj(obj)
    /\ Defined(Get(obj, "topicId")) \/ Defined(Get(obj, "topic_id"))
    /\ \/ Defined(Get(obj, "id")) \/ Defined(Get(obj, "marketId"))
       \/ Defined(Get(obj, "market_id")) \/ Defined(Get(obj, "mid"))

looksLikeMarketDetail(obj) ==
    /\ isObj(obj)
    /\ Defined(Get(obj, "topicId")) \/ Defined(Get(obj, "topic_id"))
    /\ \/ Defined(Get(obj, "yesTokenId")) \/ Defined(Get(obj, "yes_token_id"))
       \/ Defined(Get(obj, "noTokenId")) \/ Defined(Get(obj, "no_token_id"))

\* src/unnamed/part_001:633-674: the first array, searching depth first with
\* the preferred keys ahead, whose first 20 items hold one that satisfies pred.
PreferredKeys == <<"list", "data", "items", "rows", "records", "markets", "result">>
MaxDepth   == 10    \* if (depth > 10 ...) return null
SampleSize == 20    \* node.slice(0, 20)

\* itemPredicate, by name
Satisfies(pred, x) ==
    IF pred = "looksLikeMarketListItem" THEN looksLikeMarketListItem(x)
    ELSE looksLikeMarketDetail(x)

RECURSIVE visit(_, _, _)
visit(node, depth, pred) ==
    IF depth > MaxDepth \/ Nullish(node) THEN JNull
    ELSE IF node.t = "arr"
    THEN LET n == Min({Len(node.items), SampleSize})
         IN  IF \E i \in 1..n : Satisfies(pred, node.items[i]) THEN node
             ELSE LET sub == [i \in 1..Len(node.items) |->
                                 visit(node.items[i], depth + 1, pred)]
                      hit == {i \in 1..Len(node.items) : Truthy(sub[i])}
                  IN  IF hit = {} THEN JNull ELSE sub[Min(hit)]
    ELSE IF isObj(node)
    THEN LET pref == {i \in 1..Len(PreferredKeys) :
                        /\ PreferredKeys[i] \in DOMAIN node.f
                        /\ Truthy(visit(node.f[PreferredKeys[i]], depth + 1, pred))}
             rest == {k \in DOMAIN node.f : Truthy(visit(node.f[k], depth + 1, pred))}
         IN  IF pref # {} THEN visit(node.f[PreferredKeys[Min(pref)]], depth + 1, pred)
             ELSE IF rest # {} THEN visit(node.f[CHOOSE k \in rest : TRUE], depth + 1, pred)
             ELSE JNull
    ELSE JNull

deepFindArrayByPredicate(root, pred) == visit(root, 0, pred)

\* src/unnamed/part_003:9-13: fetch, throw on a non-2xx status, r.json()
api(resp) ==
    IF ~resp.ok THEN Throws([NoMsg EXCEPT !.m = "API", !.status = resp.status])
    ELSE IF resp.body.kind # "json" THEN Throws(Msg("SyntaxError"))
    ELSE Returns(resp.body.payload)

\* src/unnamed/part_003:23: data?.result?.list || data?.list || []
childList(data) ==
    OrElse(OrElse(Get(Get(data, "result"), "list"), Get(data, "list")), JArr(<<>>))

\* src/unnamed/part_003:28-32: the first child of one parent whose marketId
\* is the target
childOf(kids, target) ==
    LET hits == {i \in 1..Len(kids) : JsString(Get(kids[i], "marketId")) = target}
    IN  IF hits = {} THEN JNull ELSE kids[Min(hits)]

\* src/unnamed/part_003:25-33: the first such child over the parents in order
RECURSIVE firstChild(_, _)
firstChild(list, target) ==
    IF Len(list) = 0 THEN JNull
    ELSE LET kids == Get(Head(list), "childMarkets")
             hit  == IF kids.t = "arr" THEN childOf(kids.items, target) ELSE JNull
         IN  IF hit # JNull THEN hit ELSE firstChild(Tail(list), target)

(***************************************************************************)
(* OpenAPI path discovery.  A path name is known by the words it contains; *)
(* PathOrder is the order of the keys of spec.paths.                       *)
(***************************************************************************)
PathOrder == <<"/market", "/token/price-history", "/token/latest-price", "/token/orderbook">>

Includes(p, w) ==
    CASE p = "/token/price-history" -> w \in {"token", "price", "history"}
      [] p = "/token/latest-price"  -> w \in {"token", "price", "latest"}
      [] p = "/token/orderbook"     -> w \in {"token", "orderbook"}
      [] OTHER -> FALSE

\* src/unnamed/part_001:135-142
pickGetPaths(spec) ==
    LET ps == Get(spec, "paths")
    IN  SelectSeq(PathOrder,
                  LAMBDA p : /\ HasKey(ps, p)
                             /\ isObj(ps.f[p])
                             /\ Truthy(Get(ps.f[p], "get")))

\* src/unnamed/part_001:144-154
MustScore  == 10
NiceScore  == 2
TokenScore == 3
LatestScore == 1

scorePath(p, mustHave, niceToHave) ==
    MustScore * Cardinality({w \in mustHave : Includes(p, w)})
        + NiceScore * Cardinality({w \in niceToHave : Includes(p, w)})
        + (IF Includes(p, "token") THEN TokenScore ELSE 0)
        + (IF Includes(p, "latest") THEN LatestScore ELSE 0)

\* candidates with score >= 10, then arr.sort(desc)[0]?.p || null
pickBest(getPaths, mustHave, niceToHave) ==
    LET ok == {i \in 1..Len(getPaths) :
                 scorePath(getPaths[i], mustHave, niceToHave) >= MustScore}
        top == {i \in ok : \A j \in ok :
                 scorePath(getPaths[j], mustHave, niceToHave)
                     <= scorePath(getPaths[i], mustHave, niceToHave)}
    IN  IF ok = {} THEN "" ELSE getPaths[Min(top)]

\* src/unnamed/part_001:156-190, given the spec document
resolveTokenPaths(spec) ==
    LET getPaths == pickGetPaths(spec)
    IN  [latestPath    |-> pickBest(getPaths, {"price"}, {"latest", "token"}),
         orderbookPath |-> pickBest(getPaths, {"orderbook"}, {"token"}),
         historyPath   |-> pickBest(getPaths, {"history"}, {"price", "token"})]

NoPaths == [latestPath |-> "", orderbookPath |-> "", historyPath |-> ""]

\* src/unnamed/part_001:933-935, the build "root"
FixedPaths == [latestPath    |-> "/token/latest-price",
               orderbookPath |-> "/token/orderbook",
               historyPath   |-> "/token/price-history"]

(***************************************************************************)
(* The upstream.  What the listing holds is fixed for a run (total,        *)
(* hitPages); how each single request is answered is drawn when the answer *)
(* arrives.                                                                *)
(***************************************************************************)
TargetTopic  == <<"6", "1">>
TargetChild  == <<"7">>
YesTok == JStr(<<"Y">>)
NoTok == JStr(<<"N">>)

Filler ==
    JObj([topicId |-> JNum(99), marketId |-> JNum(1),
          yesTokenId |-> JStr(<<"A">>), noTokenId |-> JStr(<<"B">>)])

\* Listing records whose topic id is the target.
MatchRecords ==
    { JObj([topicId |-> JNum(61), marketId |-> JNum(7),
            yesTokenId |-> YesTok, noTokenId |-> NoTok, volume24h |-> JNum(60000)]),
      JObj([topic_id |-> JStr(TargetTopic), id |-> JNum(7),
            rules |-> JObj([yesTokenId |-> YesTok, noTokenID |-> NoTok])]),
      JObj([topicId |-> JNum(61), marketId |-> JNum(7)]),
      JObj([topicId |-> JNum(61)]),
      JObj([topicID |-> JNum(61), marketId |-> JNum(7), yesTokenId |-> YesTok]),
      JObj([topicId |-> JNum(61), marketId |-> JNum(7),
            yesTokenId |-> YesTok, noTokenId |-> JStr(<<>>)]) }

\* A root record that holds the target child.
Parent ==
    JObj([marketId |-> JNum(3),
          childMarkets |-> JArr(<<JObj([marketId |-> JNum(8)]),
                                   JObj([marketId |-> JNum(7), yesTokenId |-> YesTok,
                                         noTokenId |-> NoTok])>>)])

\* What a market-detail endpoint may hold.
DetailDocs ==
    { JObj([yesTokenId |-> YesTok, noTokenId |-> NoTok]),
      JObj([topicId |-> JNum(61), yesTokenId |-> JNull, noTokenId |-> NoTok]),
      JObj([marketId |-> JNum(7)]),
      JObj([data |-> JArr(<<JObj([topic_id |-> JNum(61), yes_token_id |-> YesTok,
                                  no_token_id |-> NoTok])>>)]),
      JArr(<<>>) }

Op == JObj([get |-> JObj([summary |-> JStr(<<"a">>)])])

\* What the OpenAPI document may be.
GoodSpec ==
    JObj([paths |-> JObj([p \in {"/market", "/token/price-history", "/token/latest-price",
                                 "/token/orderbook"} |-> Op])])
SpecDocs ==
    { GoodSpec,
      JObj([paths |-> JObj([p \in {"/market", "/token/latest-price"} |-> Op])]),
      JObj([info |-> JStr(<<"a">>)]) }

CodeEnv(code, msg, res)     == JObj([code |-> code, msg |-> msg, result |-> res])
ErrnoEnv(errno, errmsg, res) == JObj([errno |-> errno, errmsg |-> errmsg, result |-> res])

\* The ways a request whose result is res gets answered well.
Delivered(res) ==
    { Http(TRUE, 200, JsonBody(CodeEnv(JNum(0), JStr(<<>>), res))),
      Http(TRUE, 200, JsonBody(ErrnoEnv(JNum(0), JStr(<<>>), res))),
      Http(TRUE, 200, JsonBody(res)) }

\* The ways any request gets answered badly.
Failures ==
    { Http(FALSE, 500, GarbageBody),
      Http(TRUE, 200, GarbageBody),
      Http(TRUE, 200, EmptyBody),
      Http(TRUE, 200, JsonBody(CodeEnv(JNum(5), JStr(<<"b", "a", "d">>), JNull))) }

\* The records of listing page p.
ListOf(p, rec) ==
    IF p \notin hitPages THEN <<Filler>>
    ELSE IF variant = "child" THEN <<Filler, Parent>>
    ELSE <<Filler, rec>>

PageResult(p, rec) ==
    IF total = JUndef THEN JObj([list |-> JArr(ListOf(p, rec))])
    ELSE JObj([total |-> total, list |-> JArr(ListOf(p, rec))])

ListingAnswers(p) ==
    UNION {Delivered(PageResult(p, rec)) : rec \in MatchRecords}
        \cup Failures
        \cup { Http(TRUE, 200, JsonBody(CodeEnv(JNum(0), JStr(<<>>), JObj([total |-> total])))),
               Http(TRUE, 200, JsonBody(CodeEnv(JNum(0), JStr(<<>>), JArr(<<Filler>>)))) }

\* The answer holds a record of the target.
HoldsTarget(p, resp) ==
    p \in hitPages /\ \E rec \in MatchRecords : resp \in Delivered(PageResult(p, rec))

DetailAnswers ==
    UNION {Delivered(d) : d \in DetailDocs}
        \cup { Http(FALSE, 500, GarbageBody),
               Http(TRUE, 200, EmptyBody),
               Http(TRUE, 200, JsonBody(CodeEnv(JNum(5), JStr(<<"b", "a", "d">>), JNull))) }

SpecAnswers ==
    {Http(TRUE, 200, JsonBody(d)) : d \in SpecDocs}
        \cup { Http(FALSE, 500, GarbageBody), Http(TRUE, 200, GarbageBody),
               Http(TRUE, 200, EmptyBody), Http(TRUE, 200, JsonBody(JArr(<<>>))) }

TokenAnswers ==
    Delivered(JObj([price |-> JStr(<<"0", ".", "5">>)]))
        \cup { Http(FALSE, 500, GarbageBody) }

(***************************************************************************)
(* The handler.  Its state is read into one record, the code between two   *)
(* awaits is a function on that record, and the action writes it back.     *)
(***************************************************************************)
Req(kind, n)   == [kind |-> kind, n |-> n]
\* An entry of the log: a request ("req") or its answer ("ok", "fail"); an
\* answer notes whether it held a record of the target.
Ev(e, kind, n) == [e |-> e, kind |-> kind, n |-> n, hit |-> FALSE]

TokenRequests == {Req("token", n) : n \in 1..6}

Cur ==
    [pc |-> pc, topicId |-> topicId, page |-> page, maxPages |-> maxPages,
     found |-> found, market |-> market, tok |-> tok, cand |-> cand,
     lastErr |-> lastErr, inflight |-> inflight, log |-> log, sent |-> sent,
     specCache |-> specCache, specFetchedAt |-> specFetchedAt, paths |-> paths,
     arrived |-> arrived, tokens |-> tokens]

Put(c) ==
    /\ pc' = c.pc /\ topicId' = c.topicId /\ page' = c.page
    /\ maxPages' = c.maxPages /\ found' = c.found /\ market' = c.market
    /\ tok' = c.tok /\ cand' = c.cand /\ lastErr' = c.lastErr
    /\ inflight' = c.inflight /\ log' = c.log /\ sent' = c.sent
    /\ specCache' = c.specCache /\ specFetchedAt' = c.specFetchedAt
    /\ paths' = c.paths /\ arrived' = c.arrived /\ tokens' = c.tokens

\* a request goes out
issue(c, kind, n) ==
    [c EXCEPT !.inflight = @ \cup {Req(kind, n)}, !.log = Append(@, Ev("req", kind, n))]

\* its answer comes in
answer(c, kind, n, out, hit) ==
    [c EXCEPT !.inflight = @ \ {Req(kind, n)},
              !.log = Append(@, [Ev(IF out.ok THEN "ok" ELSE "fail", kind, n)
                                    EXCEPT !.hit = hit])]

\* res.status(status).json({ error }) and res.json({ topicId, market, ... })
ErrorReply(status, e) ==
    [status |-> status, error |-> e, market |-> JUndef,
     tok |-> [yesTokenId |-> JUndef, noTokenId |-> JUndef]]
respond(c, status, e) ==
    [c EXCEPT !.pc = "done", !.sent = Append(@, ErrorReply(status, e))]
respondOk(c) ==
    [c EXCEPT !.pc = "done",
              !.sent = Append(@, [status |-> 200, error |-> NoMsg,
                                  market |-> c.market, tok |-> c.tok])]

\* catch (e) { res.status(500).json({ error: e.message || "Failed to analyze" }) }
catchAll(c, e) == respond(c, 500, IF e.m = "" THEN Msg("Failed to analyze") ELSE e)

\* src/unnamed/part_001:432-451: both sides' three requests go out together
issueTokens(c) ==
    [c EXCEPT !.pc = "tokens",
              !.inflight = @ \cup TokenRequests,
              !.log = @ \o [n \in 1..6 |-> Ev("req", "token", n)]]

\* src/unnamed/part_001:417-428
withSpec(c, spec) ==
    LET ps == resolveTokenPaths(spec)
    IN  IF ps.latestPath = "" \/ ps.orderbookPath = "" \/ ps.historyPath = ""
        THEN respond([c EXCEPT !.paths = ps], 500,
                     Msg("Could not auto-resolve token endpoints from OpenAPI spec."))
        ELSE issueTokens([c EXCEPT !.paths = ps])

\* src/unnamed/part_001:104: _specCache && now - _specFetchedAt < 5 * 60 * 1000
freshSpec(cache, fetchedAt, t) == Truthy(cache) /\ t - fetchedAt < SpecTtl

\* src/unnamed/part_001:103-109: the cached document, or a request for it
toSpec(c) ==
    IF freshSpec(c.specCache, c.specFetchedAt, now)
    THEN withSpec(c, c.specCache)
    ELSE issue([c EXCEPT !.pc = "spec"], "spec", 0)

\* A fetch that takes any JSON for the document.
fetchOpenApiSpecUnchecked(resp) ==
    IF ~resp.ok
    THEN Throws([NoMsg EXCEPT !.m = "OpenAPI spec fetch failed", !.status = resp.status])
    ELSE IF resp.body.kind # "json" THEN Throws(Msg("OpenAPI spec is not JSON"))
    ELSE Returns(resp.body.payload)

\* src/unnamed/part_001:109-128: the fetch of the document and its checks
fetchOpenApiSpec(resp) ==
    IF ~resp.ok
    THEN Throws([NoMsg EXCEPT !.m = "OpenAPI spec fetch failed", !.status = resp.status])
    ELSE IF resp.body.kind # "json" THEN Throws(Msg("OpenAPI spec is not JSON"))
    ELSE IF ~isObj(resp.body.payload) \/ ~isObj(Get(resp.body.payload, "paths"))
    THEN Throws(Msg("OpenAPI spec missing paths"))
    ELSE Returns(resp.body.payload)

\* src/unnamed/part_001:130-132 and 417, from the document's answer on
afterSpec(c, out) ==
    IF ~out.ok THEN catchAll(c, out.err)
    ELSE withSpec([c EXCEPT !.specCache = out.val, !.specFetchedAt = now], out.val)

\* Token requests without the check of the ids.
decideUnchecked(c) == toSpec(c)

\* src/unnamed/part_001:409-417
decide(c) ==
    IF Unresolved(c.tok)
    THEN respond(c, 500, Msg("Could not resolve yes/no token IDs for this market."))
    ELSE toSpec(c)

\* src/unnamed/part_001:397-407, up to the detail request
afterFound(c) ==
    LET t == pickTokenIds(c.found)
        d == [c EXCEPT !.market = c.found, !.tok = t]
    IN  IF Unresolved(t) /\ Truthy(pickMarketId(c.found))
        THEN issue([d EXCEPT !.pc = "detail", !.cand = 1], "detail", 1)
        ELSE decide(d)

\* A not-found that is reported like an upstream failure.
notFoundAsFailure(c) ==
    catchAll([c EXCEPT !.found = JNull], Msg("Market not found for topicId."))

\* src/unnamed/part_001:393-395
notFound(c) ==
    respond([c EXCEPT !.found = JNull], 404, Msg("Market not found for topicId."))

\* src/unnamed/part_001:220-241, from one listing answer on
afterListPage(c, out) ==
    IF ~out.ok THEN catchAll(c, out.err)
    ELSE LET mp == IF c.page = 1 THEN maxPagesOf(out.val) ELSE c.maxPages
             f  == findIn(out.val.f["list"].items, c.topicId)
             d  == [c EXCEPT !.maxPages = mp]
         IN  IF Truthy(f) THEN afterFound([d EXCEPT !.found = f])
             ELSE IF c.page + 1 <= mp
             THEN issue([d EXCEPT !.page = c.page + 1], "list", c.page + 1)
             ELSE notFound(d)

DetailCandidates == 3    \* candidates.length of fetchMarketDetailById

\* src/unnamed/part_001:244-261 and 403-405, from one detail answer on
afterDetail(c, out) ==
    IF out.ok
    THEN LET m == IF isObj(out.val) THEN Spread(c.market, out.val) ELSE c.market
         IN  decide([c EXCEPT !.market = m, !.tok = pickTokenIds(m), !.lastErr = NoMsg])
    ELSE IF c.cand < DetailCandidates
    THEN issue([c EXCEPT !.cand = c.cand + 1, !.lastErr = out.err], "detail", c.cand + 1)
    ELSE catchAll([c EXCEPT !.lastErr = out.err], out.err)

(***************************************************************************)
(* The build "root": one listing request, over candidate paths.            *)
(***************************************************************************)
RootCandidates       == 4    \* candidates.length of fetchMarketsRoot
RootDetailCandidates == 2    \* candidates.length of fetchMarketDetailById

\* src/unnamed/part_001:908-935, once findMarketByTopicId has returned
analyzeRoot(c) ==
    LET t == pickTokenIdsRoot(c.market)
        d == [c EXCEPT !.tok = t]
    IN  IF Unresolved(t)
        THEN respond(d, 500, Msg("Could not resolve yes/no token IDs for this market."))
        ELSE issueTokens([d EXCEPT !.paths = FixedPaths])

\* src/unnamed/part_001:798-815 and 845-863, from one listing answer on
afterMarketsRoot(c, out) ==
    IF ~out.ok
    THEN IF c.cand < RootCandidates
         THEN issue([c EXCEPT !.cand = c.cand + 1, !.lastErr = out.err], "list", c.cand + 1)
         ELSE catchAll([c EXCEPT !.lastErr = out.err], out.err)
    ELSE LET marketsList == deepFindArrayByPredicate(out.val, "looksLikeMarketListItem")
         IN  IF marketsList.t # "arr"
             THEN catchAll(c, Msg("Could not locate markets list array"))
             ELSE LET listItem == findListItem(marketsList.items, c.topicId)
                      d == [c EXCEPT !.found = listItem, !.market = listItem,
                                     !.lastErr = NoMsg]
                  IN  IF ~Truthy(listItem)
                      THEN respond([d EXCEPT !.found = JNull, !.market = JNull], 404,
                                   Msg("Market not found for topicId."))
                      ELSE IF ~Unresolved(pickTokenIdsRoot(listItem))
                              \/ ~Truthy(pickMarketIdRoot(listItem))
                      THEN analyzeRoot(d)
                      ELSE issue([d EXCEPT !.pc = "detail", !.cand = 1], "detail", 1)

\* src/unnamed/part_001:817-843 and 865-867, from one detail answer on
afterDetailRoot(c, out) ==
    LET r     == out.val
        arr   == deepFindArrayByPredicate(r, "looksLikeMarketDetail")
        maybe == IF arr.t = "arr" /\ Len(arr.items) > 0
                 THEN OrElse(arr.items[1], JNull) ELSE JNull
        detail == IF looksLikeMarketDetail(r) THEN r
                  ELSE IF Truthy(maybe) THEN maybe ELSE r
        le    == IF out.ok THEN c.lastErr ELSE out.err
    IN  IF out.ok /\ isObj(r) /\ isObj(detail)
        THEN analyzeRoot([c EXCEPT !.market = Spread(c.found, detail), !.lastErr = NoMsg])
        ELSE IF c.cand < RootDetailCandidates
        THEN issue([c EXCEPT !.cand = c.cand + 1, !.lastErr = le], "detail", c.cand + 1)
        ELSE catchAll([c EXCEPT !.lastErr = le],
                      IF le.m = "" THEN Msg("Failed to fetch market detail") ELSE le)

(***************************************************************************)
(* The build "child": GET /api/debug over findChildMarket.                 *)
(***************************************************************************)
\* src/unnamed/part_003:21-36 and 52-69, from one listing answer on
afterChildPage(c, out) ==
    IF ~out.ok THEN respond(c, 500, out.err)
    ELSE LET list == childList(out.val)
         IN  IF list.t # "arr" THEN respond(c, 500, Msg("TypeError"))
             ELSE LET ch == firstChild(list.items, c.topicId)
                  IN  IF Truthy(ch)
                      THEN respondOk([c EXCEPT !.found = ch, !.market = ch,
                                        !.tok = [yesTokenId |-> Get(ch, "yesTokenId"),
                                                 noTokenId  |-> Get(ch, "noTokenId")]])
                      ELSE IF c.page + 1 <= ChildMaxPages
                      THEN issue([c EXCEPT !.page = c.page + 1], "list", c.page + 1)
                      ELSE respond([c EXCEPT !.found = JNull], 404, Msg("Market not found"))

(***************************************************************************)
(* The handlers as a state machine: one request, from its arrival to the   *)
(* last answer of the upstream.                                            *)
(***************************************************************************)
Variants == {"paged", "root", "child"}

Urls ==
    { <<SchemeTok, QTok, KeyTok, "6", "1">>,
      <<"6", "1">>,
      <<SchemeTok, QTok, KeyTok, LetterTok>> }

MarketIds == { <<>>, TargetChild }

Totals ==
    { JUndef, JNum(0), JNum(PageLimit), JNum(PageLimit + 5), JStr(<<"4", "0">>),
      JNum(PageLimit * SafetyCeiling),
      JNum(PageLimit * (SafetyCeiling + ExtraPages)) }

HitCandidates ==
    { 1, 2, 3, ChildMaxPages, ChildMaxPages + ExtraPages, DefaultPages,
      DefaultPages + ExtraPages, SafetyCeiling, SafetyCeiling + ExtraPages }

HitSets == {{}} \cup {{p} : p \in HitCandidates} \cup {{2, 3}}

\* A short listing, for the runs that follow a request to its last answer.
ShortTotals  == { JNum(PageLimit + 5) }
ShortHitSets == { {}, {1}, {2} }
\* The build "root" reads page 1 alone.
RootHitSets  == { {}, {1} }

\* _specCache, _specFetchedAt and the clock: nothing cached, a fresh
\* document, a document of exactly the TTL's age.
NoCache == [cache |-> JNull, at |-> 0, now |-> SpecTtl + 2]
CacheStates ==
    { NoCache,
      [cache |-> GoodSpec, at |-> 3, now |-> SpecTtl + 2],
      [cache |-> GoodSpec, at |-> 2, now |-> SpecTtl + 2] }

NoTokens == [yesTokenId |-> JUndef, noTokenId |-> JUndef]

HandlerAt(position) ==
    /\ pc = position
    /\ topicId = <<>> /\ page = 0 /\ maxPages = 0
    /\ found = JUndef /\ market = JUndef /\ tok = NoTokens
    /\ cand = 0 /\ lastErr = NoMsg
    /\ inflight = {} /\ log = <<>> /\ sent = <<>>
    /\ paths = NoPaths /\ arrived = {} /\ tokens = {}

\* No request: the state of the handler variables where only a pure
\* function is exercised.
NoMetrics == mIn = [kind |-> "none"] /\ mOut = [who |-> "none"]

NoRequest ==
    /\ HandlerAt("idle")
    /\ variant = "paged" /\ hasKey = TRUE /\ url = <<>>
    /\ total = JUndef /\ hitPages = {}
    /\ specCache = JNull /\ specFetchedAt = 0 /\ now = 0

RequestArrives(totals, hitSets, caches) ==
    /\ HandlerAt("start")
    /\ variant \in Variants
    /\ IF variant = "child"
       THEN url \in MarketIds /\ hasKey = TRUE
       ELSE url \in Urls /\ hasKey \in BOOLEAN
    /\ total \in (IF variant = "paged" THEN totals ELSE ShortTotals)
    /\ hitPages \in (IF variant = "root" THEN RootHitSets ELSE hitSets)
    /\ \E cs \in (IF variant = "paged" THEN caches ELSE {NoCache}) :
          specCache = cs.cache /\ specFetchedAt = cs.at /\ now = cs.now
    /\ pIn = <<>> /\ pOut = [who |-> "none", r |-> NoId]
    /\ gIn = Http(TRUE, 200, EmptyBody) /\ gOut = NotRead
    /\ NoMetrics

Frame == UNCHANGED <<worldVars, parseVars, getVars, metricVars>>

\* src/unnamed/part_001:379-392
StartAnalyze ==
    /\ pc = "start" /\ variant = "paged"
    /\ LET r == parseTopicId(url)
       IN  Put(IF rejected(r)
               THEN respond(Cur, 400, Msg("Invalid URL. Could not find topicId."))
               ELSE IF ~hasKey
               THEN respond(Cur, 500, Msg("Missing API key (OPINION_API_KEY)."))
               ELSE issue([Cur EXCEPT !.pc = "list", !.topicId = r.id, !.page = 1],
                          "list", 1))
    /\ Frame

\* src/unnamed/part_001:901-908
StartAnalyzeRoot ==
    /\ pc = "start" /\ variant = "root"
    /\ LET r == parseTopicId(url)
       IN  Put(IF rejected(r)
               THEN respond(Cur, 400, Msg("Invalid URL. Could not find topicId."))
               ELSE IF ~hasKey
               THEN respond(Cur, 500, Msg("Missing API key."))
               ELSE issue([Cur EXCEPT !.pc = "list", !.topicId = r.id, !.page = 1,
                                      !.cand = 1], "list", 1))
    /\ Frame

\* src/unnamed/part_003:45-52
StartDebug ==
    /\ pc = "start" /\ variant = "child"
    /\ Put(IF Len(url) = 0
           THEN respond(Cur, 400, Msg("marketId required"))
           ELSE issue([Cur EXCEPT !.pc = "list", !.topicId = url, !.page = 1],
                      "list", 1))
    /\ Frame

RecvListPage ==
    /\ pc = "list" /\ variant = "paged"
    /\ Req("list", page) \in inflight
    /\ \E resp \in ListingAnswers(page) :
          LET out == getMarketListPage(resp)
          IN  Put(afterListPage(answer(Cur, "list", page, out, HoldsTarget(page, resp)),
                                out))
    /\ Frame

RecvMarketsRoot ==
    /\ pc = "list" /\ variant = "root"
    /\ Req("list", cand) \in inflight
    /\ \E resp \in ListingAnswers(1) :
          LET out == openApiGet(resp)
          IN  Put(afterMarketsRoot(answer(Cur, "list", cand, out, HoldsTarget(1, resp)),
                                   out))
    /\ Frame

RecvChildPage ==
    /\ pc = "list" /\ variant = "child"
    /\ Req("list", page) \in inflight
    /\ \E resp \in ListingAnswers(page) :
          LET out == api(resp)
          IN  Put(afterChildPage(answer(Cur, "list", page, out, HoldsTarget(page, resp)),
                                 out))
    /\ Frame

RecvDetail ==
    /\ pc = "detail" /\ variant = "paged"
    /\ Req("detail", cand) \in inflight
    /\ \E resp \in DetailAnswers :
          LET out == openApiGet(resp)
          IN  Put(afterDetail(answer(Cur, "detail", cand, out, FALSE), out))
    /\ Frame

RecvDetailRoot ==
    /\ pc = "detail" /\ variant = "root"
    /\ Req("detail", cand) \in inflight
    /\ \E resp \in DetailAnswers :
          LET out == openApiGet(resp)
          IN  Put(afterDetailRoot(answer(Cur, "detail", cand, out, FALSE), out))
    /\ Frame

RecvSpec ==
    /\ pc = "spec"
    /\ Req("spec", 0) \in inflight
    /\ \E resp \in SpecAnswers :
          LET out == fetchOpenApiSpec(resp)
          IN  Put(afterSpec(answer(Cur, "spec", 0, out, FALSE), out))
    /\ Frame

\* tokenRequests, in the order of the response's tokens, and the three
\* requests of each side
TokenSides == <<"YES", "NO">>
RequestsOf(side) == IF side = "YES" THEN 1..3 ELSE 4..6

\* A side computed as soon as one of its answers is there.
computedEarly(got) == {TokenSides[i] : i \in {j \in DOMAIN TokenSides : RequestsOf(TokenSides[j]) \cap got # {}}}

\* src/unnamed/part_001:446-452: a side's inner Promise.all resolves, and
\* its metrics and verdict are computed, once its three answers are there
computed(got) == {TokenSides[i] : i \in {j \in DOMAIN TokenSides : RequestsOf(TokenSides[j]) \subseteq got}}

\* A handler that answers every failing token request with a response.
afterTokenEachFailure(c, n, out) ==
    IF ~out.ok THEN catchAll(c, out.err)
    ELSE IF c.pc # "tokens" THEN c
    ELSE LET d == [c EXCEPT !.arrived = @ \cup {n}, !.tokens = computed(c.arrived \cup {n})]
         IN  IF d.tokens = {TokenSides[i] : i \in DOMAIN TokenSides} THEN respondOk(d) ELSE d

\* src/unnamed/part_001:437-530, from one token answer on: the outer
\* Promise.all rejects on the first failure and resolves once both sides are
\* computed; an answer that comes after the response changes nothing.
afterToken(c, n, out) ==
    LET got == c.arrived \cup {n}
        d   == [c EXCEPT !.arrived = got, !.tokens = computed(got)]
    IN  IF c.pc # "tokens" THEN c
        ELSE IF ~out.ok THEN catchAll(c, out.err)
        ELSE IF d.tokens = {TokenSides[i] : i \in DOMAIN TokenSides} THEN respondOk(d)
        ELSE d

RecvToken ==
    /\ \E r \in inflight \cap TokenRequests :
       \E resp \in TokenAnswers :
          LET out == IF variant = "flat" THEN openApiGetCodeOnly(resp) ELSE openApiGet(resp)
          IN  Put(afterToken([Cur EXCEPT !.inflight = @ \ {r}], r.n, out))
    /\ Frame

Next ==
    \/ StartAnalyze \/ StartAnalyzeRoot \/ StartDebug
    \/ RecvListPage \/ RecvMarketsRoot \/ RecvChildPage
    \/ RecvDetail \/ RecvDetailRoot
    \/ RecvSpec \/ RecvToken

Init == RequestArrives(ShortTotals, ShortHitSets, CacheStates)

Spec == Init /\ [][Next]_vars

\* The listing scans over long listings, up to the token requests.
ScanInit == RequestArrives(Totals, HitSets, {NoCache})

ScanNext ==
    \/ StartAnalyze \/ StartAnalyzeRoot \/ StartDebug
    \/ RecvListPage \/ RecvMarketsRoot \/ RecvChildPage
    \/ RecvDetail \/ RecvDetailRoot
    \/ RecvSpec

ScanSpec == ScanInit /\ [][ScanNext]_vars

\* Every request the upstream holds is answered in the end.
FairScanSpec == ScanSpec /\ WF_vars(ScanNext)

(***************************************************************************)
(* The clients on their own: Init draws the response, the actions read it. *)
(***************************************************************************)
SomeResult == JObj([total |-> JNum(1), list |-> JArr(<<>>)])

\* Objects over the envelope's keys, each key absent or one of its values.
Absent == [t |-> "absent"]
EnvelopeChoices ==
    [code   : {Absent, JNum(0), JNum(5), JStr(<<"0">>), JNull},
     msg    : {Absent, JStr(<<"b", "a", "d">>), JStr(<<>>)},
     errno  : {Absent, JNum(0), JNum(9)},
     errmsg : {Absent, JStr(<<"n", "o">>)},
     result : {Absent, SomeResult, JNull}]

ObjectOf(c) ==
    LET keys == {k \in DOMAIN c : c[k] # Absent}
    IN  JObj([k \in keys |-> c[k]])

Payloads ==
    {ObjectOf(c) : c \in EnvelopeChoices}
        \cup {JNull, JNum(7), JStr(<<"o", "k">>), JArr(<<>>), JArr(<<SomeResult>>)}

Bodies == {JsonBody(p) : p \in Payloads} \cup {GarbageBody, EmptyBody}

Responses ==
    {Http(TRUE, 200, b) : b \in Bodies}
        \cup {Http(FALSE, s, b) : s \in {404, 500}, b \in Bodies}

GetInit ==
    /\ NoMetrics
    /\ gIn \in Responses
    /\ gOut = NotRead
    /\ pIn = <<>>
    /\ pOut = [who |-> "none", r |-> NoId]
    /\ NoRequest

GetCurrent ==
    /\ gOut.who = "none"
    /\ gOut' = [who |-> "openApiGet", out |-> openApiGet(gIn)]
    /\ UNCHANGED <<gIn, parseVars, metricVars, worldVars, handlerVars>>

GetCodeOnly ==
    /\ gOut.who = "none"
    /\ gOut' = [who |-> "openApiGetCodeOnly", out |-> openApiGetCodeOnly(gIn)]
    /\ UNCHANGED <<gIn, parseVars, metricVars, worldVars, handlerVars>>

GetFetchJson ==
    /\ gOut.who = "none"
    /\ gOut' = [who |-> "fetchJson", out |-> fetchJson(gIn)]
    /\ UNCHANGED <<gIn, parseVars, metricVars, worldVars, handlerVars>>

GetFetchJsonStrict ==
    /\ gOut.who = "none"
    /\ gOut' = [who |-> "fetchJsonStrict", out |-> fetchJsonStrict(gIn)]
    /\ UNCHANGED <<gIn, parseVars, metricVars, worldVars, handlerVars>>

GetNext == GetCurrent \/ GetCodeOnly \/ GetFetchJson \/ GetFetchJsonStrict

(***************************************************************************)
(* The parser on its own: Init draws the identifier, the actions parse it. *)
(***************************************************************************)
ParseInit ==
    /\ NoMetrics
    /\ pIn \in Inputs
    /\ pOut = [who |-> "none", r |-> NoId]
    /\ gIn = Http(TRUE, 200, EmptyBody)
    /\ gOut = NotRead
    /\ NoRequest

ParseCurrent ==
    /\ pOut.who = "none"
    /\ pOut' = [who |-> "parseTopicId", r |-> parseTopicId(pIn)]
    /\ UNCHANGED <<pIn, getVars, metricVars, worldVars, handlerVars>>

ParseLegacy ==
    /\ pOut.who = "none"
    /\ pOut' = [who |-> "parseTopicIdLegacy", r |-> parseTopicIdLegacy(pIn)]
    /\ UNCHANGED <<pIn, getVars, metricVars, worldVars, handlerVars>>

ParseNext == ParseCurrent \/ ParseLegacy

ParseSpec == ParseInit /\ [][ParseNext]_vars

GetSpec == GetInit /\ [][GetNext]_vars

(***************************************************************************)
(* JavaScript numbers in the metrics: exact rationals in lowest terms,     *)
(* NaN and the two infinities.  Prices are counted in thousandths (400 is  *)
(* 0.400), sizes and volumes in units; rounding of doubles and the sign of *)
(* zero are not modelled.                                                  *)
(***************************************************************************)
RECURSIVE Gcd(_, _)
Gcd(a, b) == IF b = 0 THEN a ELSE Gcd(b, a % b)

Abs(n) == IF n < 0 THEN 0 - n ELSE n
Sign(n) == IF n < 0 THEN 0 - 1 ELSE IF n > 0 THEN 1 ELSE 0

Q(n, d) ==
    LET g == Gcd(Abs(n), Abs(d))
    IN  [k |-> "fin", n |-> Sign(d) * (n \div g), d |-> Abs(d) \div g]
Whole(n) == Q(n, 1)
QNaN     == [k |-> "nan", n |-> 0, d |-> 1]
QInf(s)  == [k |-> "inf", n |-> s, d |-> 1]

isFinite(a) == a.k = "fin"
\* a value used as a condition: 0 and NaN are falsy
QTruthy(a)  == a.k = "inf" \/ (a.k = "fin" /\ a.n # 0)

QNeg(a) == [a EXCEPT !.n = 0 - a.n]
QAbs(a) == [a EXCEPT !.n = Abs(a.n)]

QAdd(a, b) ==
    CASE a.k = "nan" \/ b.k = "nan" -> QNaN
      [] a.k = "inf" /\ b.k = "inf" -> IF a.n = b.n THEN a ELSE QNaN
      [] a.k = "inf" -> a
      [] b.k = "inf" -> b
      [] OTHER -> Q(a.n * b.d + b.n * a.d, a.d * b.d)
QSub(a, b) == QAdd(a, QNeg(b))

QMul(a, b) ==
    CASE a.k = "nan" \/ b.k = "nan" -> QNaN
      [] a.k = "inf" \/ b.k = "inf" ->
            IF a.n = 0 \/ b.n = 0 THEN QNaN ELSE QInf(Sign(a.n) * Sign(b.n))
      [] OTHER -> Q(a.n * b.n, a.d * b.d)

QDiv(a, b) ==
    CASE a.k = "nan" \/ b.k = "nan" -> QNaN
      [] a.k = "inf" /\ b.k = "inf" -> QNaN
      [] a.k = "inf" -> QInf(IF b.n < 0 THEN 0 - a.n ELSE a.n)
      [] b.k = "inf" -> Whole(0)
      [] b.n = 0 -> IF a.n = 0 THEN QNaN ELSE QInf(Sign(a.n))
      [] OTHER -> Q(a.n * b.d, a.d * b.n)

\* a <= b and a >= b; every comparison with NaN is false
QLe(a, b) ==
    CASE a.k = "nan" \/ b.k = "nan" -> FALSE
      [] a.k = "inf" -> a.n < 0 \/ (b.k = "inf" /\ b.n > 0)
      [] b.k = "inf" -> b.n > 0
      [] OTHER -> a.n * b.d <= b.n * a.d
QGe(a, b) == QLe(b, a)

\* Number(v)
Number(v) == LET x == ToNumber(v) IN IF x.nan THEN QNaN ELSE Whole(x.n)

\* Math.floor(a) in its place.
MathFloor(a) == a.n \div a.d

\* Math.round(a) of a finite a: the nearest integer, halves upwards
MathRound(a) == (2 * a.n + a.d) \div (2 * a.d)

(***************************************************************************)
(* Liquidity metrics of one outcome token.                                 *)
(***************************************************************************)
\* a[i] (0-based): undefined out of range and of anything but an array
At(a, i) ==
    IF a.t = "arr" /\ i >= 0 /\ i < Len(a.items) THEN a.items[i + 1] ELSE JUndef

\* Array.isArray(x) ? x : []
ItemsOf(x) == IF x.t = "arr" THEN x.items ELSE <<>>

\* What a function call comes to: a number, or a TypeError thrown.
Threw    == [thrown |-> TRUE, v |-> QNaN]
Value(q) == [thrown |-> FALSE, v |-> q]

\* entries.reduce((t, b) => t + Number(b.size || 0), 0)
RECURSIVE SumSizes(_)
SumSizes(s) ==
    IF Len(s) = 0 THEN Whole(0)
    ELSE QAdd(SumSizes(SubSeq(s, 1, Len(s) - 1)),
              Number(OrElse(Get(s[Len(s)], "size"), JNum(0))))

\* Reading a property of null or undefined throws.
AnyNullish(s) == \E i \in DOMAIN s : Nullish(s[i])

\* Number(b.price || 0), and Number(bid.price) of the build that reads it raw
PriceOrZero(b) == Number(OrElse(Get(b, "price"), JNum(0)))
PriceRaw(b)    == Number(Get(b, "price"))

\* The sizes of the whole book, no band applied.
sumDepthWholeBook(orderbook, mid, percent) ==
    Value(QAdd(SumSizes(ItemsOf(Get(orderbook, "bids"))),
               SumSizes(ItemsOf(Get(orderbook, "asks")))))

sumDepthWithinPercent(orderbook, mid, percent) ==
    IF ~Truthy(orderbook) \/ ~QTruthy(mid) THEN Value(Whole(0))
    ELSE LET threshold == QMul(mid, Q(percent, 100))
             maxPrice  == QAdd(mid, threshold)
             minPrice  == QSub(mid, threshold)
             bids      == ItemsOf(Get(orderbook, "bids"))
             asks      == ItemsOf(Get(orderbook, "asks"))
             bidDepth  == SumSizes(SelectSeq(bids,
                              LAMBDA b : QGe(PriceOrZero(b), minPrice)))
             askDepth  == SumSizes(SelectSeq(asks,
                              LAMBDA a : QLe(PriceOrZero(a), maxPrice)))
         IN  IF AnyNullish(bids) \/ AnyNullish(asks) THEN Threw
             ELSE Value(QAdd(bidDepth, askDepth))

sumDepthWithinPercentRaw(orderbook, mid, percent) ==
    IF ~Truthy(orderbook) \/ ~QTruthy(mid) THEN Value(Whole(0))
    ELSE LET threshold == QMul(mid, Q(percent, 100))
             maxBid    == QAdd(mid, threshold)
             minAsk    == QSub(mid, threshold)
             bids      == ItemsOf(Get(orderbook, "bids"))
             asks      == ItemsOf(Get(orderbook, "asks"))
             bidDepth  == SumSizes(SelectSeq(bids,
                              LAMBDA bid : QGe(PriceRaw(bid), minAsk)))
             askDepth  == SumSizes(SelectSeq(asks,
                              LAMBDA ask : QLe(PriceRaw(ask), maxBid)))
         IN  IF AnyNullish(bids) \/ AnyNullish(asks) THEN Threw
             ELSE Value(QAdd(bidDepth, askDepth))

HistoryKeys == <<"data", "list", "items", "records", "rows", "history", "prices">>

RECURSIVE firstArray(_, _)
firstArray(x, keys) ==
    IF Len(keys) = 0 THEN <<>>
    ELSE IF Get(x, Head(keys)).t = "arr" THEN Get(x, Head(keys)).items
    ELSE firstArray(x, Tail(keys))

extractHistoryPoints(history) ==
    IF history.t = "arr" THEN history.items ELSE firstArray(history, HistoryKeys)

\* extractArray(history) || (Array.isArray(history) ? history : [])
ServerHistoryKeys == <<"data", "items", "list", "markets", "result">>
extractArray(history) ==
    IF history.t = "arr" THEN history.items
    ELSE firstArray(history, ServerHistoryKeys)

\* Math.abs(((latest - prior) / prior) * 100)
Move(latest, prior) == QAbs(QMul(QDiv(QSub(latest, prior), prior), Whole(100)))

\* The percentage of the band of calcMetrics' depth.
BandPercent == 1

\* The average whatever the two prices are.
midAlwaysAverage(bestBid, bestAsk, fallback) ==
    QDiv(QAdd(bestBid, bestAsk), Whole(2))

\* bestBid && bestAsk ? (bestBid + bestAsk) / 2 : fallback
midOf(bestBid, bestAsk, fallback) ==
    IF QTruthy(bestBid) /\ QTruthy(bestAsk)
    THEN QDiv(QAdd(bestBid, bestAsk), Whole(2)) ELSE fallback

\* The division carried out whatever mid is.
spreadPercentUnguarded(bestBid, bestAsk, mid) ==
    QMul(QDiv(QSub(bestAsk, bestBid), mid), Whole(100))

\* mid ? ((bestAsk - bestBid) / mid) * 100 : 0
spreadPercentOf(bestBid, bestAsk, mid) ==
    IF QTruthy(mid) THEN QMul(QDiv(QSub(bestAsk, bestBid), mid), Whole(100))
    ELSE Whole(0)

Metrics(bestBid, bestAsk, mid, spreadPercent, depth, movePercent, volume24h) ==
    [thrown |-> depth.thrown, bestBid |-> bestBid, bestAsk |-> bestAsk,
     mid |-> mid, spreadPercent |-> spreadPercent, depth |-> depth.v,
     movePercent |-> movePercent, volume24h |-> volume24h]

calcMetrics(latestPrice, orderbook, history, volume24h) ==
    LET bestBid  == Number(OrElse(Get(At(Get(orderbook, "bids"), 0), "price"), JNum(0)))
        bestAsk  == Number(OrElse(Get(At(Get(orderbook, "asks"), 0), "price"), JNum(0)))
        fallback == Number(Coalesce(Get(latestPrice, "price"),
                           Coalesce(Get(latestPrice, "latestPrice"),
                           Coalesce(Get(latestPrice, "last"),
                           Coalesce(Get(latestPrice, "p"), JNum(0))))))
        mid      == midOf(bestBid, bestAsk, fallback)
        spreadPercent == spreadPercentOf(bestBid, bestAsk, mid)
        depth    == sumDepthWithinPercent(orderbook, mid, BandPercent)
        pts      == extractHistoryPoints(history)
        n        == Len(pts)
        latest   == Number(Coalesce(Get(pts[n], "price"),
                           Coalesce(Get(pts[n], "p"), JNum(0))))
        prior    == Number(Coalesce(Get(pts[n - 1], "price"),
                           Coalesce(Get(pts[n - 1], "p"), JNum(0))))
        movePercent == IF n > 1 /\ QTruthy(prior) THEN Move(latest, prior)
                       ELSE Whole(0)
    IN  Metrics(bestBid, bestAsk, mid, spreadPercent, depth, movePercent, volume24h)

\* The server build: falsy fallbacks, two latest-price spellings, p before price.
calcMetricsServer(latestPrice, orderbook, history, volume24h) ==
    LET bestBid  == Number(OrElse(Get(At(Get(orderbook, "bids"), 0), "price"), JNum(0)))
        bestAsk  == Number(OrElse(Get(At(Get(orderbook, "asks"), 0), "price"), JNum(0)))
        fallback == Number(OrElse(Get(latestPrice, "price"),
                           OrElse(Get(latestPrice, "latestPrice"), JNum(0))))
        mid      == midOf(bestBid, bestAsk, fallback)
        spreadPercent == spreadPercentOf(bestBid, bestAsk, mid)
        depth    == sumDepthWithinPercent(orderbook, mid, BandPercent)
        pts      == extractArray(history)
        n        == Len(pts)
        latest   == Number(Coalesce(Get(pts[n], "p"),
                           Coalesce(Get(pts[n], "price"), JNum(0))))
        prior    == Number(Coalesce(Get(pts[n - 1], "p"),
                           Coalesce(Get(pts[n - 1], "price"), JNum(0))))
        movePercent == IF n > 1 /\ QTruthy(prior) THEN Move(latest, prior)
                       ELSE Whole(0)
    IN  Metrics(bestBid, bestAsk, mid, spreadPercent, depth, movePercent, volume24h)

(***************************************************************************)
(* Scoring: four threshold checks, a total, a verdict and a confidence.    *)
(***************************************************************************)
Scored(label, score) == [label |-> label, score |-> score]
Thresholds(ok, wait) == [ok |-> ok, wait |-> wait]

\* The thresholds taken as exclusive.
scoreMetricStrict(value, thresholds) ==
    IF ~QLe(value, thresholds.ok) THEN Scored("OK", 1)
    ELSE IF ~QLe(value, thresholds.wait) THEN Scored("WAIT", 0)
    ELSE Scored("NO TRADE", 0 - 1)

scoreMetric(value, thresholds) ==
    IF QGe(value, thresholds.ok) THEN Scored("OK", 1)
    ELSE IF QGe(value, thresholds.wait) THEN Scored("WAIT", 0)
    ELSE Scored("NO TRADE", 0 - 1)

scoreInverseMetric(value, thresholds) ==
    IF QLe(value, thresholds.ok) THEN Scored("OK", 1)
    ELSE IF QLe(value, thresholds.wait) THEN Scored("WAIT", 0)
    ELSE Scored("NO TRADE", 0 - 1)

getVerdict(totalScore) ==
    IF QGe(totalScore, Whole(1)) THEN "OK"
    ELSE IF totalScore = Whole(0) THEN "WAIT"
    ELSE "NO TRADE"

LiquidityOk   == 25000
LiquidityWait == 10000
SpreadOk      == Q(5, 2)
SpreadWait    == 5
MoveOk        == 6
MoveWait      == 12
VolumeOk      == 50000
VolumeWait    == 20000

\* A rationale that is the caution only for NO TRADE.
cautionOnlyNoTrade(score, caution, ok) == IF score.label = "NO TRADE" THEN caution ELSE ok

\* src/unnamed/part_001:490-498: score.label !== "OK" ? caution : ok
cautionUnlessOk(score, caution, ok) == IF score.label # "OK" THEN caution ELSE ok

\* The phrasings of the rationale, for liquidity, spread and 1h move.
WhyCaution ==
    << "Orderbook depth inside 1% is below the target for aggressive entries.",
       "Spread is wider than ideal, indicating higher entry cost.",
       "Recent 1h move is large, increasing short-term volatility risk." >>
WhyOk ==
    << "Orderbook depth inside 1% meets the aggressive target.",
       "Spread is tight enough for aggressive entries.",
       "Recent 1h move is within the aggressive tolerance." >>

\* why.slice(0, end)
sliceFromStart(a, end) == SubSeq(a, 1, IF Len(a) < end THEN Len(a) ELSE end)

\* The scoring of one token from its metrics.
scoreToken(metrics) ==
    LET liquidityScore == scoreMetric(metrics.depth,
                              Thresholds(Whole(LiquidityOk), Whole(LiquidityWait)))
        spreadScore    == scoreInverseMetric(metrics.spreadPercent,
                              Thresholds(SpreadOk, Whole(SpreadWait)))
        moveScore      == scoreInverseMetric(metrics.movePercent,
                              Thresholds(Whole(MoveOk), Whole(MoveWait)))
        volumeScore    == scoreMetric(metrics.volume24h,
                              Thresholds(Whole(VolumeOk), Whole(VolumeWait)))
        totalScore     == liquidityScore.score + spreadScore.score
                              + moveScore.score + volumeScore.score
        why == << cautionUnlessOk(liquidityScore, WhyCaution[1], WhyOk[1]),
                  cautionUnlessOk(spreadScore, WhyCaution[2], WhyOk[2]),
                  cautionUnlessOk(moveScore, WhyCaution[3], WhyOk[3]) >>
    IN  [liquidity |-> liquidityScore, spread |-> spreadScore,
         move |-> moveScore, volume |-> volumeScore,
         totalScore |-> totalScore,
         verdict |-> getVerdict(Whole(totalScore)),
         confidence |-> MathRound(Q((totalScore + 4) * 100, 8)),
         why |-> sliceFromStart(why, 3)]

\* The overall verdict and confidence over the two tokens' results.
overall(yes, no) ==
    LET overallScore == Q(yes.totalScore + no.totalScore, 2)
    IN  [score |-> overallScore,
         verdict |-> getVerdict(overallScore),
         confidence |-> MathRound(Q(yes.confidence + no.confidence, 2))]

\* The inline analysis of the single-market build: candles of history.data,
\* prices read raw, no test of the prior price.
move1h(history) ==
    LET candles == OrElse(Get(history, "data"), JArr(<<>>))
        n == Len(ItemsOf(candles))
        a == candles.items[n]
        b == candles.items[n - 1]
    IN  IF n > 1
        THEN IF Nullish(a) \/ Nullish(b) THEN Threw
             ELSE Value(Move(Number(Get(a, "price")), Number(Get(b, "price"))))
        ELSE Value(Whole(0))

\* The depth of the build that reads prices raw, at its own mid.
depthRaw(latestPrice, orderbook) ==
    LET bestBid == Number(OrElse(Get(At(Get(orderbook, "bids"), 0), "price"), JNum(0)))
        bestAsk == Number(OrElse(Get(At(Get(orderbook, "asks"), 0), "price"), JNum(0)))
        mid     == IF QTruthy(bestBid) /\ QTruthy(bestAsk)
                   THEN QDiv(QAdd(bestBid, bestAsk), Whole(2))
                   ELSE Number(OrElse(Get(latestPrice, "price"),
                               OrElse(Get(latestPrice, "value"), JNum(0))))
    IN  [mid |-> mid, depth |-> sumDepthWithinPercentRaw(orderbook, mid, BandPercent)]

(***************************************************************************)
(* The metrics calculator on its own: Init draws the payloads of one       *)
(* token, the actions compute its metrics in the builds that have them.    *)
(***************************************************************************)
MaxBookEntries == 3

Order(p, s) == JObj([price |-> JNum(p), size |-> JNum(s)])
Point(p)    == JObj([price |-> JNum(p)])

\* 0.40 x 30000 and 0.41 x 30000 of the literal scenario, an order far from
\* them, one without a price, a null entry and one with a price that is no
\* number.
BookEntries ==
    {Order(400, 30000), Order(410, 30000), Order(500, 100),
     JObj([size |-> JNum(70)]), JNull,
     JObj([price |-> JStr(<<LetterTok>>), size |-> JNum(5)])}

Sides(n) == SeqsUpTo(BookEntries, n)

Books ==
    {JObj([bids |-> JArr(b), asks |-> JArr(a)]) :
        <<b, a>> \in {x \in Sides(MaxBookEntries) \X Sides(MaxBookEntries) :
                        Len(x[1]) + Len(x[2]) <= MaxBookEntries}}

ScenarioBook == JObj([bids |-> JArr(<<Order(400, 30000)>>),
                      asks |-> JArr(<<Order(410, 30000)>>)])
EmptyBook    == JObj([bids |-> JArr(<<>>), asks |-> JArr(<<>>)])

LatestPrices ==
    {JUndef, JObj([price |-> JNum(500)]), JObj([price |-> JNum(0)]),
     JObj([last |-> JNum(500)]), JObj([price |-> JStr(<<LetterTok>>)])}

ScenarioHistory == JArr(<<Point(390), Point(400)>>)

Histories ==
    {JUndef, JArr(<<>>), JArr(<<Point(400)>>), ScenarioHistory,
     JArr(<<Point(0), Point(400)>>),
     JArr(<<JObj([p |-> JNum(500)]), JObj([p |-> JNum(400)])>>),
     JObj([data |-> JArr(<<Point(390), Point(400)>>)]),
     JObj([data |-> JArr(<<Point(0), Point(400)>>)]),
     JObj([data |-> JArr(<<Point(0), Point(0)>>)]),
     JObj([prices |-> JArr(<<Point(410), Point(400)>>)]),
     JArr(<<Point(400), JNull>>)}

Volumes == {Whole(60000), Whole(5000)}

Payload(latestPrice, orderbook, history, volume24h) ==
    [kind |-> "metrics", latestPrice |-> latestPrice, orderbook |-> orderbook,
     history |-> history, volume24h |-> volume24h]

\* The book and the latest price vary, or the history and the volume do: no
\* metric reads both.
MetricInputs ==
    {Payload(l, b, ScenarioHistory, Whole(60000)) :
        <<l, b>> \in LatestPrices \X (Books \cup {JUndef})}
    \cup
    {Payload(x[1], x[2], x[3], x[4]) :
        x \in {JUndef, JObj([price |-> JNum(500)])} \X {ScenarioBook, EmptyBook}
                \X Histories \X Volumes}

MetricsInit ==
    /\ mIn \in MetricInputs
    /\ mOut = [who |-> "none"]
    /\ pIn = <<>> /\ pOut = [who |-> "none", r |-> NoId]
    /\ gIn = Http(TRUE, 200, EmptyBody) /\ gOut = NotRead
    /\ NoRequest

MetricsFrame == UNCHANGED <<mIn, parseVars, getVars, worldVars, handlerVars>>

\* calcMetrics and the scoring that follows it in the token analysis
Analysed(who, m) ==
    [who |-> who, m |-> m,
     r |-> IF m.thrown THEN [verdict |-> "none"] ELSE scoreToken(m)]

CalcMetrics ==
    /\ mOut.who = "none"
    /\ mOut' = Analysed("calcMetrics",
                   calcMetrics(mIn.latestPrice, mIn.orderbook, mIn.history,
                               mIn.volume24h))
    /\ MetricsFrame

CalcMetricsServer ==
    /\ mOut.who = "none"
    /\ mOut' = Analysed("calcMetricsServer",
                   calcMetricsServer(mIn.latestPrice, mIn.orderbook, mIn.history,
                                     mIn.volume24h))
    /\ MetricsFrame

DepthRaw ==
    /\ mOut.who = "none"
    /\ mOut' = [who |-> "depthRaw", m |-> depthRaw(mIn.latestPrice, mIn.orderbook)]
    /\ MetricsFrame

Move1h ==
    /\ mOut.who = "none"
    /\ mOut' = [who |-> "move1h", m |-> move1h(mIn.history)]
    /\ MetricsFrame

MetricsNext == CalcMetrics \/ CalcMetricsServer \/ DepthRaw \/ Move1h

MetricsSpec == MetricsInit /\ [][MetricsNext]_vars

(***************************************************************************)
(* Properties of the upstream clients (GetSpec).                           *)
(***************************************************************************)
IsCodeEnvelope(p)  == HasKey(p, "code") /\ HasKey(p, "result")
IsErrnoEnvelope(p) == HasKey(p, "errno") /\ HasKey(p, "result") /\ ~HasKey(p, "code")

\* The envelope rule for one payload p and one outcome o; the status field
\* is code or errno, the message field msg or errmsg.
EnvelopeRule(p, o) ==
    LET status == IF IsCodeEnvelope(p) THEN p.f["code"] ELSE Get(p, "errno")
        text   == IF IsCodeEnvelope(p) THEN Get(p, "msg") ELSE Get(p, "errmsg")
    IN  IF IsCodeEnvelope(p) \/ IsErrnoEnvelope(p)
        THEN /\ status = JNum(0) => o = Returns(p.f["result"])
             /\ (status.t = "num" /\ status.n # 0) =>
                    /\ ~o.ok
                    /\ Truthy(text) => o.err.text = JsString(text)
        ELSE o = Returns(p)

ReadJson == gOut.who # "none" /\ gIn.ok /\ gIn.body.kind = "json"

\* The current client alone follows the envelope rule.
CurrentClientFollowsEnvelopeRule ==
    (ReadJson /\ gOut.who = "openApiGet") => EnvelopeRule(gIn.body.payload, gOut.out)

\* C8: for every 2xx JSON payload each of the clients openApiGet
\* (part_001:56-96, server.js:64-93) and fetchJson (server.js:648-660)
\* returns payload.result for a code-0 or errno-0 envelope, fails with the
\* upstream's message for a non-zero code or errno, and returns the payload
\* unchanged when neither envelope is present.
C8_EnvelopeByShape ==
    (ReadJson /\ gOut.who \in {"openApiGet", "openApiGetCodeOnly", "fetchJson"})
        => EnvelopeRule(gIn.body.payload, gOut.out)

\* The transport rule for one response and one outcome: a non-2xx response
\* fails with its status and body, a 2xx body that is no JSON fails as
\* malformed, and neither returns a value.
TransportRule(resp, o) ==
    /\ ~resp.ok => /\ ~o.ok
                   /\ o.err.m = "Request failed"
                   /\ o.err.status = resp.status
                   /\ o.err.body = resp.body
    /\ (resp.ok /\ resp.body.kind # "json") =>
           /\ ~o.ok
           /\ o.err.m \in {"Non-JSON response", "Bad JSON"}

\* C9: openApiGet (part_001:56-72) and fetchJsonStrict (part_004:48-61) fail
\* with the status and body on every non-2xx response and with a
\* malformed-body error on every 2xx body that is not parseable JSON.
C9_TransportErrors ==
    gOut.who \in {"openApiGet", "fetchJsonStrict"} => TransportRule(gIn, gOut.out)

\* What does hold of openApiGet: the transport rule for every response but
\* the 2xx response without text, which it reads as null.
CurrentClientTransport ==
    (gOut.who = "openApiGet" /\ ~(gIn.ok /\ gIn.body.kind = "empty"))
        => TransportRule(gIn, gOut.out)

(***************************************************************************)
(* Properties of the parser (ParseSpec).                                   *)
(***************************************************************************)
Parsed == pOut.who # "none"

\* The id is the text right after some "topicId=" of the input.
FollowsKey(input, id) ==
    \E i \in 1..Len(input) :
        /\ input[i] = KeyTok
        /\ i + Len(id) <= Len(input)
        /\ SubSeq(input, i + 1, i + Len(id)) = id

IsReq(i, kind) == log[i].e = "req" /\ log[i].kind = kind
ReqsOf(kind)   == {i \in DOMAIN log : IsReq(i, kind)}
NumReqs(kind)  == Cardinality(ReqsOf(kind))
ListFails      == {i \in DOMAIN log : log[i].e = "fail" /\ log[i].kind = "list"}

\* findMarketByTopicId / findChildMarket has been called.
ScanStarted == page >= 1
\* ... and has returned, a record or null.
ScanReturned == found # JUndef

\* The page count as the claims word it: ceil(total / 20) of the total on
\* page 1, and no page when there is no such number.
StatedPageCount ==
    LET t == ToNumber(total)
    IN  IF t.nan THEN 0 ELSE CeilDiv(t.n, PageLimit)

HitInStatedRange ==
    \E p \in hitPages : p <= Min({StatedPageCount, SafetyCeiling})

\* C1: in the build "paged", when the scan returns and some page p with
\* p <= min(ceil(total/20), 80) holds a record of the target, the scan
\* returns a record whose topic id is the target; it returns null only when
\* no page of that range holds one; a returned record always has that id.
C1_ScanCompleteness ==
    (variant = "paged" /\ ScanReturned) =>
        /\ HitInStatedRange => isObj(found)
        /\ found = JNull => ~HitInStatedRange
        /\ isObj(found) => JsString(pickTopicId(found)) = topicId

\* The target sits on the last page under the ceiling and has been found.
C1_Witness ==
    /\ variant = "paged" /\ hitPages = {SafetyCeiling}
    /\ total = JNum(PageLimit * SafetyCeiling)
    /\ isObj(found) /\ page = SafetyCeiling

\* C2: in the builds "paged" and "child" at most one listing request is in
\* flight, the first request of the log asks for page 1, every later
\* listing request comes right after the answer to the listing request
\* before it and asks for a higher page, and after an answer that held a
\* record of the target no listing request follows.
C2_SequentialEarlyExit ==
    variant \in {"paged", "child"} =>
        /\ Cardinality({r \in inflight : r.kind = "list"}) <= 1
        /\ \A i \in ReqsOf("list") :
              IF i = 1 THEN log[i].n = 1
              ELSE /\ i >= 3
                   /\ IsReq(i - 2, "list")
                   /\ log[i - 1].kind = "list" /\ log[i - 1].e \in {"ok", "fail"}
                   /\ log[i - 1].n = log[i - 2].n
                   /\ log[i - 2].n < log[i].n
        /\ \A i \in DOMAIN log :
              (log[i].kind = "list" /\ log[i].hit) =>
                  \A j \in ReqsOf("list") : j < i

\* The scan asked for pages 1, 2, 3, found the target on page 3 and stopped.
C2_Witness ==
    /\ variant = "paged" /\ hitPages = {3}
    /\ isObj(found) /\ NumReqs("list") = 3
    /\ log[6].hit

\* The page count as the code derives it from page 1: ceil(total / 20) for
\* a non-zero number, 50 pages otherwise.
DerivedPageCount ==
    IF StatedPageCount = 0 THEN DefaultPages ELSE StatedPageCount

ScanBounds ==
    /\ (variant = "paged" /\ ScanStarted) =>
          /\ NumReqs("list") >= 1
          /\ NumReqs("list") <= SafetyCeiling
          /\ NumReqs("list") <= Max2(1, DerivedPageCount)
    /\ (variant = "child" /\ ScanStarted) =>
          /\ NumReqs("list") >= 1
          /\ NumReqs("list") <= ChildMaxPages

\* C3 (as amended): when every listing request is answered, the scan ends;
\* findMarketByTopicId issues between 1 and 80 listing requests and never
\* more than the derived page count (ceil(total/20) for a non-zero numeric
\* total on page 1, else 50; at least one); findChildMarket issues between
\* 1 and 10.
C3_BoundedScan ==
    /\ []ScanBounds
    /\ (pc = "list") ~> (pc # "list")

\* Page 1 reported no total, and the scan ended after 50 requests.
C3_Witness ==
    /\ variant = "paged" /\ total = JUndef
    /\ found = JNull /\ pc = "done"
    /\ NumReqs("list") = DefaultPages

\* C3 as stated: the scan ends, with between 1 and 80 listing requests and
\* never more than ceil(total/20) of the total on page 1 (at least one).
C3_BoundedByStatedPageCount ==
    /\ [](ScanStarted =>
            /\ NumReqs("list") >= 1
            /\ NumReqs("list") <= SafetyCeiling
            /\ NumReqs("list") <= Max2(1, StatedPageCount))
    /\ (pc = "list") ~> (pc # "list")

\* The wordings of the errors a listing request fails with.
ListingFailureWordings ==
    {"Request failed", "Non-JSON response", "upstream", "OpenAPI error",
     "Unexpected market list shape"}

\* After a failed listing answer nothing more is requested, and the handler
\* has answered 500 with the message of a listing failure.
FailureEnds(i) ==
    /\ \A j \in DOMAIN log : j > i => log[j].e # "req"
    /\ inflight = {}
    /\ pc = "done"
    /\ Len(sent) = 1 /\ sent[1].status = 500
    /\ sent[1].error.m \in ListingFailureWordings

\* C4: in the builds "paged" and "root", when a listing request fails
\* (non-2xx, unparseable body, non-zero envelope code, no list array) no
\* later listing, detail, spec or token request is issued and the analysis
\* ends with an error response that carries the failure's message.
C4_ListingFailurePropagates ==
    variant \in {"paged", "root"} => \A i \in ListFails : FailureEnds(i)

\* What does hold: the build "paged" alone stops at the failed page.
PagedListingFailurePropagates ==
    variant = "paged" => \A i \in ListFails : FailureEnds(i)

NotFoundReply == ErrorReply(404, Msg("Market not found for topicId."))

\* C5: in the build "paged", a scan that returns null ends the analysis
\* with 404 'Market not found for topicId.' and nothing is requested after
\* the listing pages; a 404 is sent only then, and a failed upstream
\* request ends the analysis with 500.
C5_NotFoundIsNormal ==
    variant = "paged" =>
        /\ found = JNull =>
              /\ pc = "done" /\ sent = <<NotFoundReply>>
              /\ inflight = {}
              /\ \A i \in DOMAIN log : log[i].kind = "list"
        /\ \A i \in DOMAIN sent :
              sent[i].status = 404 =>
                  /\ found = JNull
                  /\ \A j \in DOMAIN log : log[j].e # "fail"
        /\ (pc = "done" /\ \E j \in DOMAIN log : log[j].e = "fail" /\ log[j].kind = "list")
              => sent[1].status = 500

\* All 80 pages were scanned without a match and 404 was sent.
C5_Witness ==
    /\ variant = "paged" /\ found = JNull
    /\ NumReqs("list") = SafetyCeiling
    /\ sent = <<NotFoundReply>>

(***************************************************************************)
(* Properties of the token resolution (Spec).                              *)
(***************************************************************************)
\* Either id is missing: absent, null, empty or zero.
LacksAnId(t) == ~Truthy(t.yesTokenId) \/ ~Truthy(t.noTokenId)

\* The listing record exposes both ids, as the build's pickTokenIds reads
\* them.
Exposes(m) ==
    IF variant = "paged" THEN ~LacksAnId(pickTokenIds(m))
    ELSE ~LacksAnId(pickTokenIdsRoot(m))

\* C6: in the builds "paged" and "root", when the matched listing record
\* exposes both a yes and a no token id, no market-detail request is
\* issued, the market of the analysis is the listing record unchanged, and
\* a result reports that record with the token ids taken from it.
C6_TradableRecordUsedAsIs ==
    (variant \in {"paged", "root"} /\ isObj(found) /\ Exposes(found)) =>
        /\ NumReqs("detail") = 0
        /\ market = found
        /\ \A i \in DOMAIN sent :
              sent[i].status = 200 =>
                  /\ sent[i].market = found
                  /\ sent[i].tok = (IF variant = "paged" THEN pickTokenIds(found)
                                    ELSE pickTokenIdsRoot(found))

\* The record with both ids at its top level went out in a 200 result.
C6_Witness ==
    /\ variant = "paged"
    /\ isObj(found) /\ Get(found, "yesTokenId") = YesTok /\ Get(found, "noTokenId") = NoTok
    /\ Len(sent) = 1 /\ sent[1].status = 200 /\ sent[1].market = found

CouldNotResolveReply ==
    ErrorReply(500, Msg("Could not resolve yes/no token IDs for this market."))

\* The detail merge is over: none was needed, or a detail answer came.
MergeOver ==
    \/ NumReqs("detail") = 0 /\ pc # "list"
    \/ \E i \in DOMAIN log : log[i].kind = "detail" /\ log[i].e = "ok"

\* C7: in the build "paged", token requests exist only when both ids are
\* resolved; when the record, after the detail merge if any, still lacks an
\* id, the analysis has ended with 'Could not resolve yes/no token IDs' and
\* no token request was issued.
C7_TokensNeedResolvedPair ==
    variant = "paged" =>
        /\ NumReqs("token") > 0 =>
              /\ isObj(market)
              /\ Truthy(pickTokenIds(market).yesTokenId)
              /\ Truthy(pickTokenIds(market).noTokenId)
        /\ (isObj(market) /\ MergeOver /\ LacksAnId(pickTokenIds(market))) =>
              /\ pc = "done" /\ sent = <<CouldNotResolveReply>>
              /\ NumReqs("token") = 0
              /\ inflight = {}

\* A detail answer was merged, an id was still missing, and 500 was sent.
C7_Witness ==
    /\ variant = "paged"
    /\ isObj(market) /\ market # found
    /\ \E i \in DOMAIN log : log[i].kind = "detail" /\ log[i].e = "ok"
    /\ sent = <<CouldNotResolveReply>>

(***************************************************************************)
(* Properties of the metrics calculator (MetricsSpec).                     *)
(***************************************************************************)
Calculated == mOut.who \in {"calcMetrics", "calcMetricsServer"}
Returned   == Calculated /\ ~mOut.m.thrown

BidsIn == ItemsOf(Get(mIn.orderbook, "bids"))
AsksIn == ItemsOf(Get(mIn.orderbook, "asks"))

\* An entry with a number for its price, and the prices of a side.
Priced(e)   == Get(e, "price").t = "num"
PricesOf(s) == {Get(s[i], "price").n : i \in {j \in DOMAIN s : Priced(s[j])}}
AllPriced(s) == \A i \in DOMAIN s : Priced(s[i])

Highest(S) == CHOOSE x \in S : \A y \in S : y <= x
Lowest(S)  == CHOOSE x \in S : \A y \in S : x <= y

\* C11: in every book of priced entries, whatever their order, the best bid
\* the calculator returns is the highest bid price and the best ask is the
\* lowest ask price.
C11_BestPricesExtremal ==
    Returned =>
        /\ (BidsIn # <<>> /\ AllPriced(BidsIn)
                => mOut.m.bestBid = Whole(Highest(PricesOf(BidsIn))))
        /\ (AsksIn # <<>> /\ AllPriced(AsksIn)
                => mOut.m.bestAsk = Whole(Lowest(PricesOf(AsksIn))))

\* The literal scenario: one bid 0.40 x 30000, one ask 0.41 x 30000, history
\* 0.39 then 0.40, volume 60000.
IsScenario ==
    /\ mIn.orderbook = ScenarioBook
    /\ mIn.history = ScenarioHistory
    /\ mIn.volume24h = Whole(60000)

OthersOk ==
    /\ mOut.r.spread = Scored("OK", 1)
    /\ mOut.r.move = Scored("OK", 1)
    /\ mOut.r.volume = Scored("OK", 1)

\* C12 as stated: the scenario gives mid 0.405, depth 60000 scored OK, the
\* other three scored OK, total 4, verdict OK, confidence 100.
C12_ScenarioAllOk ==
    IsScenario /\ Returned =>
        /\ mOut.m.mid = Q(405, 1)
        /\ mOut.m.depth = Whole(60000)
        /\ mOut.r.liquidity = Scored("OK", 1)
        /\ OthersOk
        /\ mOut.r.totalScore = 4
        /\ mOut.r.verdict = "OK"
        /\ mOut.r.confidence = 100

\* C12: the scenario gives mid 0.405; both orders lie outside the band
\* [0.40095, 0.40905], so depth is 0 and scored NO TRADE; spread, move and
\* volume are scored OK; total 2, verdict OK, confidence 75.
C12_ScenarioDepthOutsideBand ==
    IsScenario /\ Calculated =>
        /\ ~mOut.m.thrown
        /\ mOut.m.mid = Q(405, 1)
        /\ mOut.m.depth = Whole(0)
        /\ mOut.r.liquidity = Scored("NO TRADE", 0 - 1)
        /\ OthersOk
        /\ mOut.r.totalScore = 2
        /\ mOut.r.verdict = "OK"
        /\ mOut.r.confidence = 75

C12_Witness == IsScenario /\ mOut.who = "calcMetrics" /\ mOut.r.totalScore = 2

\* The entries of both sides with a price within 1% of mid.
InBand(e, mid) ==
    /\ Priced(e)
    /\ QLe(QMul(mid, Q(99, 100)), PriceOrZero(e))
    /\ QLe(PriceOrZero(e), QMul(mid, Q(101, 100)))
BandDepth(mid) ==
    SumSizes(SelectSeq(BidsIn \o AsksIn, LAMBDA e : InBand(e, mid)))

DepthComputed ==
    \/ Returned
    \/ mOut.who = "depthRaw" /\ ~mOut.m.depth.thrown
DepthOut == IF mOut.who = "depthRaw" THEN mOut.m.depth.v ELSE mOut.m.depth

\* C13: depth is the total size of exactly the bid and ask entries priced
\* within 1% of mid; an entry priced outside the band, or without a price,
\* adds nothing.
C13_DepthCountsOnlyBand ==
    DepthComputed /\ isFinite(mOut.m.mid) => DepthOut = BandDepth(mOut.m.mid)

MoveComputed == Returned \/ (mOut.who = "move1h" /\ ~mOut.m.thrown)
PointsIn ==
    CASE mOut.who = "move1h" -> ItemsOf(Get(mIn.history, "data"))
      [] mOut.who = "calcMetricsServer" -> extractArray(mIn.history)
      [] OTHER -> extractHistoryPoints(mIn.history)
MoveOut == IF mOut.who = "move1h" THEN mOut.m.v ELSE mOut.m.movePercent

PointPrice(e) == Coalesce(Get(e, "price"), Get(e, "p"))
LatestIn == PointPrice(PointsIn[Len(PointsIn)])
PriorIn  == PointPrice(PointsIn[Len(PointsIn) - 1])

\* C15: in every analysis path the move is 0 for a history of fewer than two
\* points and for a prior price of 0, and |latest - prior| / prior * 100 of
\* the last two points otherwise.
C15_MoveOfLastTwoPoints ==
    MoveComputed =>
        IF Len(PointsIn) < 2 THEN MoveOut = Whole(0)
        ELSE LatestIn.t = "num" /\ PriorIn.t = "num" =>
                IF PriorIn.n = 0 THEN MoveOut = Whole(0)
                ELSE MoveOut = Q(Abs(LatestIn.n - PriorIn.n) * 100, PriorIn.n)

\* The latest-price fallback: the first of the known fields the payload has,
\* as a number, and 0 when it has none.
LatestFields == <<"price", "latestPrice", "last", "p">>
KnownFields  == {i \in DOMAIN LatestFields : HasKey(mIn.latestPrice, LatestFields[i])}
FallbackIn ==
    IF KnownFields = {} THEN Whole(0)
    ELSE Number(Get(mIn.latestPrice, LatestFields[Lowest(KnownFields)]))

NonZero(q) == isFinite(q) /\ q # Whole(0)

Measured(depth, spreadPercent, movePercent, volume24h) ==
    [depth |-> depth, spreadPercent |-> spreadPercent,
     movePercent |-> movePercent, volume24h |-> volume24h]

DepthValues  == {Whole(0), Q(999999, 100), Whole(10000), Whole(24999), Whole(25000)}
SpreadValues == {Whole(0), Q(5, 2), Q(26, 10), Whole(5), Q(51, 10)}
MoveValues   == {Whole(6), Whole(7), Whole(12), Whole(13)}
VolumeValues == {Whole(19999), Whole(20000), Whole(49999), Whole(50000)}

YesTokenMetrics ==
    {Measured(x[1], x[2], x[3], x[4]) :
        x \in DepthValues \X SpreadValues \X MoveValues \X VolumeValues}
NoTokenMetrics ==
    {Measured(x[1], x[2], x[3], x[4]) :
        x \in {Q(999999, 100), Whole(25000)} \X {Q(5, 2), Q(51, 10)}
                \X {Whole(6), Whole(13)} \X {Whole(19999), Whole(50000)}}

ScoreInit ==
    /\ mIn \in {[kind |-> "scores", yes |-> y, no |-> n] :
                    y \in YesTokenMetrics, n \in NoTokenMetrics}
    /\ mOut = [who |-> "none"]
    /\ pIn = <<>> /\ pOut = [who |-> "none", r |-> NoId]
    /\ gIn = Http(TRUE, 200, EmptyBody) /\ gOut = NotRead
    /\ NoRequest

ScoreTokens ==
    /\ mOut.who = "none"
    /\ LET yes == scoreToken(mIn.yes)
           no  == scoreToken(mIn.no)
       IN  mOut' = [who |-> "score", yes |-> yes, no |-> no,
                    overall |-> overall(yes, no)]
    /\ MetricsFrame

ScoreNext == ScoreTokens

ScoreSpec == ScoreInit /\ [][ScoreNext]_vars

(***************************************************************************)
(* Properties of the scoring (ScoreSpec).                                  *)
(***************************************************************************)
ScoredAll == mOut.who = "score"

\* The step of a higher-is-better and of a lower-is-better metric.
Direct(v, ok, wait) ==
    IF QLe(Whole(ok), v) THEN Scored("OK", 1)
    ELSE IF QLe(Whole(wait), v) THEN Scored("WAIT", 0)
    ELSE Scored("NO TRADE", 0 - 1)
Inverse(v, ok, wait) ==
    IF QLe(v, ok) THEN Scored("OK", 1)
    ELSE IF QLe(v, wait) THEN Scored("WAIT", 0)
    ELSE Scored("NO TRADE", 0 - 1)

StepsOf(m, r) ==
    /\ r.liquidity = Direct(m.depth, 25000, 10000)
    /\ r.spread = Inverse(m.spreadPercent, Q(25, 10), Whole(5))
    /\ r.move = Inverse(m.movePercent, Whole(6), Whole(12))
    /\ r.volume = Direct(m.volume24h, 50000, 20000)

\* A metric no worse in the first token scores no worse there.
NeverWorse ==
    /\ QGe(mIn.yes.depth, mIn.no.depth)
            => mOut.yes.liquidity.score >= mOut.no.liquidity.score
    /\ QLe(mIn.yes.spreadPercent, mIn.no.spreadPercent)
            => mOut.yes.spread.score >= mOut.no.spread.score
    /\ QLe(mIn.yes.movePercent, mIn.no.movePercent)
            => mOut.yes.move.score >= mOut.no.move.score
    /\ QGe(mIn.yes.volume24h, mIn.no.volume24h)
            => mOut.yes.volume.score >= mOut.no.volume.score

Labelled(s) == s \in {Scored("OK", 1), Scored("WAIT", 0), Scored("NO TRADE", 0 - 1)}
FourOf(r)   == {r.liquidity, r.spread, r.move, r.volume}

VerdictOfTotal(t) == IF t >= 1 THEN "OK" ELSE IF t = 0 THEN "WAIT" ELSE "NO TRADE"

\* c is (t + 4) / 8 * 100 rounded to the nearest integer, a half upwards
RoundsPercent(c, t) == 2 * c <= 25 * (t + 4) + 1 /\ 25 * (t + 4) + 1 < 2 * c + 2

TokenInvariant(r) ==
    /\ r.totalScore = r.liquidity.score + r.spread.score + r.move.score
                          + r.volume.score
    /\ r.totalScore \in (0 - 4)..4
    /\ r.verdict = VerdictOfTotal(r.totalScore)
    /\ r.confidence \in 0..100
    /\ RoundsPercent(r.confidence, r.totalScore)

MeanTotal == Q(mOut.yes.totalScore + mOut.no.totalScore, 2)
MeanConfidence == Q(mOut.yes.confidence + mOut.no.confidence, 2)

\* C19: the overall verdict is OK exactly when the mean of the two totals is
\* at least 1, WAIT exactly when it is 0 and NO TRADE exactly when it is
\* negative; the overall confidence is the rounded mean of the two
\* confidences, within 0..100.
C19_OverallVerdictOfMean ==
    ScoredAll =>
        /\ (mOut.overall.verdict = "OK" <=> QGe(MeanTotal, Whole(1)))
        /\ (mOut.overall.verdict = "WAIT" <=> MeanTotal = Whole(0))
        /\ (mOut.overall.verdict = "NO TRADE" <=> MeanTotal.n < 0)
        /\ mOut.overall.confidence \in 0..100
        /\ 2 * mOut.overall.confidence \in
               {mOut.yes.confidence + mOut.no.confidence,
                mOut.yes.confidence + mOut.no.confidence + 1}

AllFinite(m) ==
    /\ isFinite(m.bestBid) /\ isFinite(m.bestAsk) /\ isFinite(m.mid)
    /\ isFinite(m.spreadPercent) /\ isFinite(m.depth)
    /\ isFinite(m.movePercent) /\ isFinite(m.volume24h)

\* An empty book, a latest price of 0.5 and an empty history.
IsEmptyScenario ==
    /\ mIn.orderbook = EmptyBook
    /\ mIn.latestPrice = JObj([price |-> JNum(500)])
    /\ mIn.history = JArr(<<>>)

EmptyScenarioResult ==
    /\ mOut.m.mid = Whole(500)
    /\ mOut.m.spreadPercent = Whole(0)
    /\ mOut.m.depth = Whole(0) /\ mOut.r.liquidity.label = "NO TRADE"
    /\ mOut.m.movePercent = Whole(0) /\ mOut.r.move.label = "OK"

\* C20: for every latest price, book and history, with missing objects,
\* empty sides, entries without price or size, null entries and values that
\* are no numbers, calcMetrics returns without throwing and every metric it
\* returns is a finite number; for the empty book with latest price 0.5 and
\* empty history it gives mid 0.5, spread 0, depth 0 (NO TRADE), move 0 (OK).
C20_CalculatorNeverFails ==
    mOut.who = "calcMetrics" =>
        /\ ~mOut.m.thrown
        /\ AllFinite(mOut.m)
        /\ (IsEmptyScenario => EmptyScenarioResult)

(***************************************************************************)
(* Properties of the token fan-out, of failures and of the response (Spec).*)
(***************************************************************************)
Analysis == variant # "child"
Replied(status) == \E i \in DOMAIN sent : sent[i].status = status
BothSides == {TokenSides[i] : i \in DOMAIN TokenSides}

Joined ==
    /\ NumReqs("token") <= Cardinality(TokenRequests)
    /\ \A s \in tokens : RequestsOf(s) \subseteq arrived
    /\ (Analysis /\ Replied(200) => tokens = BothSides)

\* A token answer is a step that takes a token request out of flight.
TokenAnswered == inflight' # inflight /\ inflight \ inflight' \subseteq TokenRequests /\ inflight' \subseteq inflight

AnyFails == {i \in DOMAIN log : log[i].e = "fail"}

\* C22: once an upstream request of an analysis has failed, no request is
\* issued any more, and an analysis with a failed request never replies 200.
C22_FailFastNoRetry ==
    Analysis =>
        /\ \A i \in AnyFails : \A j \in DOMAIN log : j > i => log[j].e # "req"
        /\ (AnyFails # {} => ~Replied(200))

\* The kind of failure a response tells, by its status and message.
KindOf(reply) ==
    CASE reply.status = 400 -> "invalid identifier"
      [] reply.status = 404 -> "market not found"
      [] reply = CouldNotResolveReply -> "token pair unresolvable"
      [] reply.status = 500 -> "upstream failure"
      [] OTHER -> "none"

\* C23: the response of an analysis tells the failure that was met: 400 for
\* an invalid identifier and for nothing else, 404 only for a market absent
\* from a listing that answered, the token-pair error only for a record whose
\* ids stayed unresolved with no upstream failure, and whenever an upstream
\* request failed, the upstream failure.
C23_FailuresSurfaceDistinctly ==
    Analysis /\ pc = "done" /\ Len(sent) > 0 =>
        LET kind == KindOf(sent[1])
        IN  /\ (kind = "invalid identifier" <=> rejected(parseTopicId(url)))
            /\ (kind = "market not found" => found = JNull /\ AnyFails = {})
            /\ (kind = "token pair unresolvable" => Unresolved(tok) /\ AnyFails = {})
            /\ (AnyFails # {} => kind = "upstream failure")

(***************************************************************************)
(* Two calls in a row for one market against one upstream snapshot         *)
(* (ReplaySpec).  The snapshot fixes, for the whole run, how the document  *)
(* request and each of the six token requests are answered; a call runs    *)
(* from the resolved token ids to its response, its token answers arriving *)
(* in the order the input names; time may pass between the calls.          *)
(***************************************************************************)
GoodToken == Http(TRUE, 200, JsonBody(JObj([price |-> JStr(<<"0", ".", "5">>)])))
BadTokens == {Http(FALSE, 500, GarbageBody), Http(TRUE, 200, GarbageBody)}
MaxBadTokens == 2
TokenSnapshots ==
    {f \in [1..6 -> {GoodToken} \cup BadTokens] :
        Cardinality({n \in 1..6 : f[n] # GoodToken}) <= MaxBadTokens}
CompletionOrders == {<<1, 2, 3, 4, 5, 6>>, <<6, 5, 4, 3, 2, 1>>, <<4, 1, 5, 2, 6, 3>>}
MaxCalls == 2

ReplayInit ==
    /\ mIn \in [kind : {"replay"}, spec : SpecAnswers, token : TokenSnapshots,
                orders : [1..MaxCalls -> CompletionOrders]]
    /\ mOut = [who |-> "none"]
    /\ pIn = <<>> /\ pOut = [who |-> "none", r |-> NoId]
    /\ gIn = Http(TRUE, 200, EmptyBody) /\ gOut = NotRead
    /\ HandlerAt("idle")
    /\ variant = "paged" /\ hasKey = TRUE /\ url = <<>>
    /\ total = JUndef /\ hitPages = {}
    /\ \E cs \in CacheStates :
          specCache = cs.cache /\ specFetchedAt = cs.at /\ now = cs.now

\* the document's answer, where the call asked for the document
afterDocument(c, resp) ==
    IF c.pc # "spec" THEN c
    ELSE LET out == fetchOpenApiSpec(resp)
         IN  afterSpec(answer(c, "spec", 0, out, FALSE), out)

\* the token answers from the i-th of the order on
RECURSIVE deliver(_, _, _, _)
deliver(c, token, order, i) ==
    IF i > Len(order) THEN c
    ELSE deliver(afterToken([c EXCEPT !.inflight = @ \ {Req("token", order[i])}],
                            order[i], openApiGet(token[order[i]])),
                 token, order, i + 1)

\* src/unnamed/part_001:409-535 for a market whose token ids are resolved
analyzeResolved(c, snapshot, order) ==
    LET c0 == [c EXCEPT !.pc = "decide", !.arrived = {}, !.tokens = {},
                        !.tok = [yesTokenId |-> YesTok, noTokenId |-> NoTok]]
    IN  deliver(afterDocument(decide(c0), snapshot.spec), snapshot.token, order, 1)

Analyze ==
    /\ mIn.kind = "replay" /\ pc = "idle" /\ Len(sent) < MaxCalls
    /\ Put([analyzeResolved(Cur, mIn, mIn.orders[Len(sent) + 1]) EXCEPT !.pc = "idle"])
    /\ mOut' = [who |-> "analyze"]
    /\ UNCHANGED <<mIn, parseVars, getVars, worldVars>>

\* the document's lifetime passes between the two calls
Elapse ==
    /\ mIn.kind = "replay" /\ Len(sent) = 1 /\ mOut.who = "analyze"
    /\ now' = now + SpecTtl
    /\ mOut' = [who |-> "elapse"]
    /\ UNCHANGED <<mIn, parseVars, getVars, handlerVars, variant, hasKey, url, total, hitPages>>

ReplayNext == Analyze \/ Elapse
ReplaySpec == ReplayInit /\ [][ReplayNext]_vars

\* What a response says of the tokens: their results in the order of
\* tokenRequests, or nothing when the call failed.
Verdicts(reply) ==
    [status |-> reply.status,
     tokens |-> IF reply.status = 200 THEN TokenSides ELSE <<>>]

\* C24: two calls for one market against one upstream snapshot give the same
\* token and overall results, YES before NO, whatever the order in which the
\* token answers arrive and whether the cached document was absent, fresh or
\* stale when each call began.
C24_DeterministicAnalysis ==
    mIn.kind = "replay" /\ Len(sent) = MaxCalls => Verdicts(sent[1]) = Verdicts(sent[2])

(***************************************************************************)
(* The 24h volume of the selected market (VolumeSpec): the record carries  *)
(* each spelling of the volume, or not, as a number or as text.            *)
(***************************************************************************)
VolumeKeys == <<"volume24h", "volume_24h", "volume">>
VolumeFields ==
    {JUndef, JNull, JNum(0), JNum(60000), JStr(<<"0">>), JStr(<<"5", "0", "0", "0">>)}
VolumeRecords ==
    {JObj([volume24h |-> x[1], volume_24h |-> x[2], volume |-> x[3]]) :
        x \in VolumeFields \X VolumeFields \X VolumeFields}

\* src/unnamed/part_001:430
\* Number(market.volume24h ?? market.volume_24h ?? market.volume ?? 0)
volume24hOf(m) ==
    Number(Coalesce(Coalesce(Coalesce(Get(m, "volume24h"), Get(m, "volume_24h")),
                             Get(m, "volume")), JNum(0)))

\* src/unnamed/part_004:243
\* Number(market?.volume24h || market?.volume_24h || market?.volume || 0)
volume24hOfServer(m) ==
    Number(OrElse(OrElse(OrElse(Get(m, "volume24h"), Get(m, "volume_24h")),
                         Get(m, "volume")), JNum(0)))

VolumeInit ==
    /\ mIn \in {[kind |-> "volume", market |-> m] : m \in VolumeRecords}
    /\ mOut = [who |-> "none"]
    /\ pIn = <<>> /\ pOut = [who |-> "none", r |-> NoId]
    /\ gIn = Http(TRUE, 200, EmptyBody) /\ gOut = NotRead
    /\ NoRequest

\* The volume each side's calcMetrics is given, in the order of tokenRequests.
Shared(who, volume24h) ==
    [who |-> who, used |-> [i \in DOMAIN TokenSides |-> volume24h]]

\* src/unnamed/part_001:430-452
Volume24h ==
    /\ mOut.who = "none"
    /\ mOut' = Shared("volume24h", volume24hOf(mIn.market))
    /\ MetricsFrame

\* src/unnamed/part_004:243-248
Volume24hServer ==
    /\ mOut.who = "none"
    /\ mOut' = Shared("volume24hServer", volume24hOfServer(mIn.market))
    /\ MetricsFrame

VolumeNext == Volume24h \/ Volume24hServer
VolumeSpec == VolumeInit /\ [][VolumeNext]_vars

VolumeTaken == mIn.kind = "volume" /\ mOut.who \in {"volume24h", "volume24hServer"}
\* The spellings under which the record holds a value other than zero.
NonZeroSpellings ==
    {i \in DOMAIN VolumeKeys : QTruthy(Number(Get(mIn.market, VolumeKeys[i])))}

\* C25: the volume both tokens are scored with is not zero whenever the
\* record holds a non-zero volume under volume24h, volume_24h or volume, is
\* zero only when it holds none, and is the same for both tokens.
C25_VolumeCarriedForward ==
    VolumeTaken =>
        /\ (NonZeroSpellings # {} => \A i \in DOMAIN TokenSides : mOut.used[i] # Whole(0))
        /\ (mOut.used[1] = Whole(0) => NonZeroSpellings = {})
        /\ \A i \in DOMAIN TokenSides : mOut.used[i] = mOut.used[1]

(***************************************************************************)
(* A matched record with child records (ChildSpec): the token pair of the  *)
(* analysis, and findChildMarket over the record's children.               *)
(***************************************************************************)
MaxChildren == 2
Kid(id, vol) == JObj([marketId |-> JNum(id), volume |-> JNum(vol)])
TradableKid(id, vol) ==
    JObj([marketId |-> JNum(id), volume |-> JNum(vol),
          yesTokenId |-> YesTok, noTokenId |-> NoTok])
Kids == {Kid(7, 100), TradableKid(7, 50), TradableKid(8, 900), Kid(8, 5)}
KidLists == UNION {[1..n -> Kids] : n \in 0..MaxChildren}
WithChildren(kids) ==
    JObj([topicId |-> JNum(61), marketId |-> JNum(3), childMarkets |-> JArr(kids)])
ParentDetails == {JObj([marketId |-> JNum(3)]), JArr(<<>>)}

ChildInit ==
    /\ mIn \in [kind : {"children"}, record : {WithChildren(k) : k \in KidLists},
                detail : ParentDetails, target : {<<"7">>, <<"8">>}]
    /\ mOut = [who |-> "none"]
    /\ pIn = <<>> /\ pOut = [who |-> "none", r |-> NoId]
    /\ gIn = Http(TRUE, 200, EmptyBody) /\ gOut = NotRead
    /\ NoRequest

\* src/unnamed/part_001:397-414 for the matched record m, its detail request
\* answered with detail by the first candidate
resolvePair(c, m, detail) ==
    LET c1 == afterFound([c EXCEPT !.found = m])
    IN  IF c1.pc = "detail"
        THEN afterDetail(answer(c1, "detail", 1, Returns(detail), FALSE), Returns(detail))
        ELSE c1

\* Object.keys(market), the marketKeys of the token-pair error
marketKeys(m) == IF isObj(m) THEN DOMAIN m.f ELSE {}

ResolvePair ==
    /\ mIn.kind = "children" /\ mOut.who = "none"
    /\ LET c == resolvePair(Cur, mIn.record, mIn.detail)
       IN  mOut' = [who |-> "resolvePair", failed |-> c.pc = "done", tok |-> c.tok,
                    reply |-> c.sent, listed |-> marketKeys(c.market)]
    /\ MetricsFrame

\* src/unnamed/part_003:16-37 over a listing page that holds the record
FindChildMarket ==
    /\ mIn.kind = "children" /\ mOut.who = "none"
    /\ mOut' = [who |-> "findChildMarket",
                child |-> firstChild(<<Filler, mIn.record>>, mIn.target)]
    /\ MetricsFrame

ChildNext == ResolvePair \/ FindChildMarket
ChildSpec == ChildInit /\ [][ChildNext]_vars

ChildrenOf(m) == {Get(m, "childMarkets").items[i] : i \in DOMAIN Get(m, "childMarkets").items}
Tradable(m)   == ~Unresolved(pickTokenIds(m))
VolumeOfKid(m) == Number(Get(m, "volume"))
\* The children a selection may end with: the tradable ones of the highest
\* volume, or with no tradable child those of the highest volume.
BestOf(kids) ==
    LET pool == IF \E k \in kids : Tradable(k) THEN {k \in kids : Tradable(k)} ELSE kids
    IN  {k \in pool : \A o \in pool : QLe(VolumeOfKid(o), VolumeOfKid(k))}

\* C26: of a matched record that is not tradable itself and has children, a
\* tradable child is preferred and a child of higher volume is never passed
\* over for one of lower volume; with no tradable child the resolution fails
\* with the token-pair error, which lists the candidate children.
C26_ChildSelection ==
    /\ mOut.who = "resolvePair" /\ ChildrenOf(mIn.record) # {} =>
          IF \E k \in ChildrenOf(mIn.record) : Tradable(k)
          THEN ~mOut.failed /\ \E k \in BestOf(ChildrenOf(mIn.record)) :
                                  mOut.tok = pickTokenIds(k)
          ELSE /\ mOut.failed /\ mOut.reply = <<CouldNotResolveReply>>
               /\ mOut.listed = ChildrenOf(mIn.record)
    /\ mOut.who = "findChildMarket" /\ Truthy(mOut.child) =>
          mOut.child \in BestOf({k \in ChildrenOf(mIn.record) :
                                    JsString(Get(k, "marketId")) = mIn.target})

(***************************************************************************)
(* Properties of the rationale (ScoreSpec).                                *)
(***************************************************************************)
\* The scores the rationale of a token result speaks of, in its order.
Explained(r) == <<r.liquidity, r.spread, r.move>>
RationaleOf(r) ==
    /\ Len(r.why) = 3
    /\ \A i \in 1..3 :
          /\ r.why[i] \in {WhyOk[i], WhyCaution[i]}
          /\ (r.why[i] = WhyOk[i] <=> Explained(r)[i].label = "OK")
          /\ (Explained(r)[i].label \in {"WAIT", "NO TRADE"} => r.why[i] = WhyCaution[i])

\* C27: a token result has exactly three rationale strings, for liquidity,
\* spread and 1h move in this order; each is the OK phrasing exactly when the
\* metric's label is OK and the caution phrasing for WAIT and for NO TRADE;
\* two results whose three labels agree have the same rationale whatever
\* their volume scores.
C27_RationaleStrings ==
    mIn.kind = "scores" /\ mOut.who = "score" =>
        /\ RationaleOf(mOut.yes) /\ RationaleOf(mOut.no)
        /\ ((\A i \in 1..3 : Explained(mOut.yes)[i].label = Explained(mOut.no)[i].label)
               => mOut.yes.why = mOut.no.why)
C27_Witness ==
    /\ mIn.kind = "scores" /\ mOut.who = "score"
    /\ mOut.yes.liquidity.label = "WAIT" /\ mOut.yes.spread.label = "NO TRADE"
    /\ mOut.yes.move.label = "OK"
    /\ mOut.yes.why = <<WhyCaution[1], WhyCaution[2], WhyOk[3]>>
    /\ mOut.no.volume.label # mOut.yes.volume.label

(***************************************************************************)
(* Properties of the market-detail fallback (Spec).                        *)
(***************************************************************************)
\* The detail requests and their answers, in the order they happened.
DetailLog == SelectSeq(log, LAMBDA ev : ev.kind = "detail")
DetailOver == Analysis /\ pc # "detail" /\ DetailLog # <<>>
DetailSucceeded == DetailOver /\ DetailLog[Len(DetailLog)].e = "ok"
TokenIdsOf(m) == IF variant = "root" THEN pickTokenIdsRoot(m) ELSE pickTokenIds(m)

\* C28: the detail candidates are requested one at a time in their order,
\* /market/{id}, /market/detail?market_id={id}, /market/detail?id={id}; the
\* first success ends the fallback and no later candidate is requested; the
\* fallback fails only after all three have failed, with the error of the
\* last; after a success the detail's fields are merged over the listing
\* record and the token ids are read from the merged record.
C28_OrderedDetailFallback ==
    Analysis =>
        /\ \A i \in DOMAIN DetailLog :
              /\ (i % 2 = 1 => DetailLog[i].e = "req" /\ DetailLog[i].n = (i + 1) \div 2)
              /\ (i % 2 = 0 => DetailLog[i].e # "req" /\ DetailLog[i].n = i \div 2)
              /\ DetailLog[i].n <= DetailCandidates
              /\ (DetailLog[i].e = "ok" => i = Len(DetailLog))
        /\ (DetailOver /\ ~DetailSucceeded =>
               /\ Len(DetailLog) = 2 * DetailCandidates
               /\ lastErr # NoMsg /\ sent = <<ErrorReply(500, lastErr)>>)
        /\ (DetailSucceeded =>
               /\ isObj(market) /\ DOMAIN found.f \subseteq DOMAIN market.f
               /\ tok = TokenIdsOf(market))

(***************************************************************************)
(* getOpenApiSpec called by overlapping callers (CacheSpec).  A caller     *)
(* that finds no fresh document asks the upstream and remembers the time   *)
(* it read at its start; answers come in any order; time passes.           *)
(***************************************************************************)
Callers == 1..2
MaxSpecCalls == 3
MaxNow == SpecTtl + 8
Idle == 0 - 1

CacheInit ==
    /\ mIn = [kind |-> "cache"]
    /\ mOut = [who |-> "none", calls |-> 0, startedAt |-> [p \in Callers |-> Idle],
               got |-> [p \in Callers |-> Returns(JUndef)]]
    /\ pIn = <<>> /\ pOut = [who |-> "none", r |-> NoId]
    /\ gIn = Http(TRUE, 200, EmptyBody) /\ gOut = NotRead
    /\ HandlerAt("idle")
    /\ variant = "paged" /\ hasKey = TRUE /\ url = <<>>
    /\ total = JUndef /\ hitPages = {}
    /\ \E cs \in CacheStates :
          specCache = cs.cache /\ specFetchedAt = cs.at /\ now = cs.now

CacheFrame ==
    UNCHANGED <<mIn, parseVars, getVars, variant, hasKey, url, total, hitPages,
                pc, topicId, page, maxPages, found, market, tok, cand, lastErr,
                log, sent, paths, arrived, tokens>>

\* src/unnamed/part_001:102-107: the call, up to its return of the cached
\* document or to its request
GetOpenApiSpec(p) ==
    /\ mIn.kind = "cache" /\ mOut.startedAt[p] = Idle /\ mOut.calls < MaxSpecCalls
    /\ IF freshSpec(specCache, specFetchedAt, now)
       THEN /\ mOut' = [mOut EXCEPT !.who = "cached", !.calls = @ + 1,
                                    !.got[p] = Returns(specCache)]
            /\ UNCHANGED inflight
       ELSE /\ mOut' = [mOut EXCEPT !.who = "asked", !.calls = @ + 1,
                                    !.startedAt[p] = now]
            /\ inflight' = inflight \cup {Req("spec", p)}
    /\ UNCHANGED <<specCache, specFetchedAt, now>>
    /\ CacheFrame

\* src/unnamed/part_001:108-132: the call, from the answer on
SpecArrives(p) ==
    /\ mIn.kind = "cache" /\ Req("spec", p) \in inflight
    /\ \E resp \in SpecAnswers :
          LET out == fetchOpenApiSpec(resp)
          IN  /\ mOut' = [mOut EXCEPT !.who = IF out.ok THEN "fetched" ELSE "threw",
                                      !.startedAt[p] = Idle, !.got[p] = out]
              /\ IF out.ok
                 THEN specCache' = out.val /\ specFetchedAt' = mOut.startedAt[p]
                 ELSE UNCHANGED <<specCache, specFetchedAt>>
    /\ inflight' = inflight \ {Req("spec", p)}
    /\ UNCHANGED now
    /\ CacheFrame

TimePasses ==
    /\ mIn.kind = "cache" /\ now + 2 <= MaxNow
    /\ now' = now + 2
    /\ UNCHANGED <<mOut, specCache, specFetchedAt, inflight>>
    /\ CacheFrame

CacheNext == (\E p \in Callers : GetOpenApiSpec(p) \/ SpecArrives(p)) \/ TimePasses
CacheSpec == CacheInit /\ [][CacheNext]_vars

ValidSpec(doc) == isObj(doc) /\ isObj(Get(doc, "paths"))
CacheSound == specCache = JNull \/ ValidSpec(specCache)
\* A step in which a fetch failed or its document was refused.
FetchRefused == mOut' # mOut /\ mOut'.who = "threw"
\* A step that is a call made while the cached document is younger than the
\* document's lifetime.
CallWhileFresh ==
    /\ mOut'.calls = mOut.calls + 1
    /\ specCache # JNull /\ now - specFetchedAt < SpecTtl

\* C29: the cached value is empty or a document with a paths object; a fetch
\* that fails or whose document is refused leaves the cached document and
\* its fetch time as they were; a call made less than 5 minutes after the
\* fetch time of the cached document returns it and asks the upstream nothing.
C29_SpecCache ==
    /\ [](mIn.kind = "cache" => CacheSound)
    /\ [][mIn.kind = "cache" /\ FetchRefused => UNCHANGED <<specCache, specFetchedAt>>]_vars
    /\ [][mIn.kind = "cache" /\ CallWhileFresh =>
             /\ inflight' = inflight
             /\ \E p \in Callers : /\ mOut'.got[p] = Returns(specCache)
                                   /\ mOut'.startedAt = mOut.startedAt]_vars
\* A document fetched by an overlapping caller is served to the next call
\* while the other caller's request is still out.
C29_Witness ==
    /\ mIn.kind = "cache" /\ mOut.who = "cached" /\ mOut.calls = MaxSpecCalls
    /\ inflight # {} /\ ValidSpec(specCache) /\ specFetchedAt >= now - 2

(***************************************************************************)
(* The build "flat" (src/server/server.js:199-303): one listing request,   *)
(* no detail request, fixed token paths.  ReplySpec follows one request of *)
(* the builds "paged" and "flat" to the last answer of the upstream;       *)
(* FairReplySpec adds that every request that is out gets its answer.      *)
(***************************************************************************)
\* src/server/server.js:95-105: the array, or null
extractMarkets(x) ==
    IF x.t = "arr" THEN x
    ELSE LET hits == {i \in DOMAIN ServerHistoryKeys : Get(x, ServerHistoryKeys[i]).t = "arr"}
         IN  IF hits = {} THEN JNull ELSE Get(x, ServerHistoryKeys[Min(hits)])

\* src/server/server.js:218: markets.find((m) => String(m.topicId) === String(topicId))
findFlat(list, id) ==
    LET hits == {i \in 1..Len(list) : JsString(Get(list[i], "topicId")) = id}
    IN  IF hits = {} THEN JUndef ELSE list[Min(hits)]

\* src/server/server.js:222-223
tokenIdsFlat(m) ==
    [yesTokenId |-> Coalesce(Get(m, "yesTokenId"), Get(m, "yes_token_id")),
     noTokenId  |-> Coalesce(Get(m, "noTokenId"), Get(m, "no_token_id"))]

\* src/server/server.js:206-233, from the listing's answer on
afterMarketsFlat(c, out) ==
    IF ~out.ok THEN catchAll(c, out.err)
    ELSE LET markets == extractMarkets(out.val)
         IN  IF markets = JNull
             THEN respond(c, 500, Msg("Market list endpoint returned unexpected format (expected array)."))
             ELSE LET m == findFlat(markets.items, c.topicId)
                      d == [c EXCEPT !.found = m, !.market = m, !.tok = tokenIdsFlat(m)]
                  IN  IF ~Truthy(m)
                      THEN respond([c EXCEPT !.found = JNull], 404,
                                   Msg("Market not found for topicId."))
                      ELSE IF Unresolved(d.tok)
                      THEN respond(d, 500, Msg("Market data missing token IDs."))
                      ELSE issueTokens([d EXCEPT !.paths = FixedPaths])

\* src/server/server.js:199-207
StartAnalyzeFlat ==
    /\ pc = "start" /\ variant = "flat"
    /\ LET r == parseTopicId(url)
       IN  Put(IF rejected(r)
               THEN respond(Cur, 400, Msg("Invalid URL. Could not find topicId."))
               ELSE IF ~hasKey
               THEN respond(Cur, 500, Msg("Missing API key."))
               ELSE issue([Cur EXCEPT !.pc = "list", !.topicId = r.id, !.page = 1],
                          "list", 1))
    /\ Frame

RecvMarketsFlat ==
    /\ pc = "list" /\ variant = "flat"
    /\ Req("list", 1) \in inflight
    /\ \E resp \in ListingAnswers(1) :
          LET out == openApiGetCodeOnly(resp)
          IN  Put(afterMarketsFlat(answer(Cur, "list", 1, out, HoldsTarget(1, resp)), out))
    /\ Frame

ReplyInit ==
    /\ HandlerAt("start")
    /\ variant \in {"paged", "flat"}
    /\ url \in Urls /\ hasKey \in BOOLEAN
    /\ total \in ShortTotals
    /\ hitPages \in (IF variant = "flat" THEN RootHitSets ELSE ShortHitSets)
    /\ \E cs \in (IF variant = "paged" THEN CacheStates ELSE {NoCache}) :
          specCache = cs.cache /\ specFetchedAt = cs.at /\ now = cs.now
    /\ pIn = <<>> /\ pOut = [who |-> "none", r |-> NoId]
    /\ gIn = Http(TRUE, 200, EmptyBody) /\ gOut = NotRead
    /\ NoMetrics

ReplyNext ==
    \/ StartAnalyze \/ StartAnalyzeFlat
    \/ RecvListPage \/ RecvMarketsFlat
    \/ RecvDetail \/ RecvSpec \/ RecvToken

ReplySpec == ReplyInit /\ [][ReplyNext]_vars
\* Every upstream call that was issued completes.
FairReplySpec == ReplySpec /\ WF_vars(ReplyNext)

\* All upstream calls of a request that has begun are over.
AllCallsOver == pc # "start" /\ inflight = {}

\* C30: the analysis never sends a second response, and once all upstream
\* calls that were issued have completed it has sent exactly one: for an
\* invalid identifier, for a market that is not found, and when token
\* requests fail while others are still out and complete later.
C30_ExactlyOneResponse ==
    /\ [](Len(sent) <= 1)
    /\ [](AllCallsOver => Len(sent) = 1)
    /\ <>(AllCallsOver /\ Len(sent) = 1)
\* A token request failed, the response was sent, and the other token
\* answers came after it.
C30_Witness ==
    /\ variant = "flat" /\ NumReqs("token") = Cardinality(TokenRequests)
    /\ inflight = {} /\ Len(sent) = 1 /\ sent[1].status = 500
    /\ tokens # BothSides

=============================================================================
